---- MODULE Spec2Model ----
(***************************************************************************)
(* Model of django-bird-playground's host controller (src/src/django.ts)   *)
(* and its Pyodide worker (src/src/worker/pyodide.worker.ts).              *)
(*                                                                         *)
(* One step of the model is a piece of one JavaScript task: a public API   *)
(* call up to the await at which it returns to its caller, the queued      *)
(* continuations of such calls (which run when the calling task ends), a   *)
(* worker message delivered to the host, a timer callback, or one step of  *)
(* the worker.  A message or timer task runs to completion together with   *)
(* every promise continuation it makes runnable, as the event loop does.   *)
(***************************************************************************)
EXTENDS Integers, Sequences, FiniteSets, TLC

VARIABLES
    states,     \* the DjangoState objects made by createInitialState
    workers,    \* the Worker objects made by `new Worker(...)`
    calls,      \* the sendMessage calls that allocated an id: promise and timer
    pg,         \* the fields of the DjangoPlayground singleton instance
    runs,       \* the doInitialize activations
    api,        \* the public API calls of the singleton and their promises
    dom,        \* the document's template elements
    env         \* the environment: whether `new Worker(url)` throws

vars == <<states, workers, calls, pg, runs, api, dom, env>>

\* A continuation of the singleton is queued as a microtask: doInitialize
\* has reached `await initializeDjango(...)` (line 500), or render() /
\* renderDOM() has reached `await instance.ensureInitialized()` (lines 399,
\* 456) on an instance that was initialized.  It runs before the next task.
MicrotasksPending ==
    \/ \E a \in DOMAIN api : api[a].pc = "called"
    \/ \E r \in DOMAIN runs : runs[r].pc \in {"init", "initThrew"}

(***************************************************************************)
(* Bounds of the model.                                                    *)
(***************************************************************************)
\* Requests made on the createDjango instance.
MaxCalls == 2
\* Workers created (`new Worker`) in one behaviour.
MaxWorkers == 2
\* Public API calls made on the DjangoPlayground singleton.
MaxApi == 2
\* Requests a client of the worker alone has outstanding.
MaxInbox == 2
\* Calls of micropip.install in the life of one worker, the one of the
\* bootstrap included.
MaxInvoked == 4
\* Error events the workers fire (worker.onerror) in one behaviour.
MaxErrors == 2

(***************************************************************************)
(* Small helpers for finite maps (JavaScript Map).                         *)
(***************************************************************************)
MapSet(f, k, v) == [x \in (DOMAIN f) \cup {k} |-> IF x = k THEN v ELSE f[x]]
MapDelete(f, k) == [x \in (DOMAIN f) \ {k} |-> f[x]]
EmptyMap == [x \in {} |-> 0]

NoWaiter == [kind |-> "none", i |-> 0]
NoResult == [shape |-> "none", success |-> FALSE, value |-> <<>>]

(***************************************************************************)
(* The whole store as one record, so that a task is a function on it.      *)
(***************************************************************************)
Sys ==
    [states |-> states, workers |-> workers, calls |-> calls, pg |-> pg,
     runs |-> runs, api |-> api, dom |-> dom]

\* createInitialState
createInitialState(packages, autoInit) ==
    [config |-> [packages |-> packages, autoInit |-> autoInit],
     worker |-> 0,
     ready |-> FALSE,
     loading |-> FALSE,
     error |-> FALSE,
     messageId |-> 0,
     pendingMessages |-> EmptyMap]

\* The worker script starts: initialize() posts its first progress message
\* and awaits loadPyodide (lines 114-121).  `boot` is the await the bootstrap
\* is at.
NewWorker(s) ==
    [owner |-> s,
     phase |-> "loading",
     boot |-> "pyodide",
     alive |-> TRUE,
     inbox |-> <<>>,
     out |-> << [kind |-> "progress", step |-> "pyodide"] >>,
     installed |-> {},
     awaiting |-> <<>>,
     invoked |-> <<>>,
     errors |-> 0]

\* worker.terminate(): the worker stops, its memory is gone, and what it had
\* posted and the host had not yet received is discarded.
Terminated(wk) ==
    [wk EXCEPT !.alive = FALSE, !.phase = "terminated", !.boot = "done",
               !.inbox = <<>>,
               !.out = <<>>, !.installed = {}, !.awaiting = <<>>,
               !.invoked = <<>>]

RECURSIVE Resume(_, _, _)
RECURSIVE OnEvent(_, _, _)

(***************************************************************************)
(* sendMessage: the two guards, then id allocation, the pending entry,     *)
(* postMessage and the 30 s timer (never cleared).                         *)
(***************************************************************************)
SendAllowed(S, s) == S.states[s].worker # 0 /\ S.states[s].ready

NextId(st) == st.messageId + 1

sendMessage(S, s, type, data, waiter) ==
    LET st == S.states[s]
        id == NextId(st)
        c  == Len(S.calls) + 1
    IN  [S EXCEPT
            !.states[s].messageId = id,
            !.states[s].pendingMessages = MapSet(@, id, c),
            !.workers[st.worker].inbox =
                Append(@, [id |-> id, type |-> type, data |-> data]),
            !.calls = Append(@, [state |-> s, id |-> id, type |-> type,
                                 data |-> data,
                                 waiter |-> waiter, settled |-> <<>>,
                                 timer |-> "armed", cleared |-> FALSE])]

\* A sendMessage that takes its id before it looks at the worker.
sendMessageCountsFirst(S, s, type, data, waiter) ==
    [S EXCEPT
        !.states[s].messageId = NextId(S.states[s]),
        !.calls = Append(@, [state |-> s, id |-> 0, type |-> type,
                             data |-> data, waiter |-> waiter,
                             settled |-> << [by |-> "notReady", rid |-> 0,
                                             outcome |-> "reject"] >>,
                             timer |-> "none", cleared |-> FALSE])]

\* sendMessage, lines 131-139, called while SendAllowed is false: the async
\* function throws WorkerNotReadyError, so its promise is born rejected.
\* The call is recorded with id 0 (no id was taken) and no timer.
sendMessageNotReady(S, s, type, data, waiter) ==
    [S EXCEPT
        !.calls = Append(@, [state |-> s, id |-> 0, type |-> type,
                             data |-> data, waiter |-> waiter,
                             settled |-> << [by |-> "notReady", rid |-> 0,
                                             outcome |-> "reject"] >>,
                             timer |-> "none", cleared |-> FALSE])]

\* resolve/reject of the promise of call c, then its awaiting continuation.
\* calls[c].settled keeps who settled the promise and how.
Settle(S, c, how) ==
    Resume([S EXCEPT !.calls[c].settled =
                Append(@, [by |-> how.by, rid |-> how.rid,
                           outcome |-> how.outcome])],
           S.calls[c].waiter, how)

\* A lookup that ignores the id of the reply and takes the oldest entry.
PendingLookupOldest(st, id) ==
    st.pendingMessages[CHOOSE k \in DOMAIN st.pendingMessages :
                          \A j \in DOMAIN st.pendingMessages : k <= j]

\* worker.onmessage, lines 94-103: a correlated reply.
PendingLookup(st, id) == st.pendingMessages[id]

OnReply(S, s, m) ==
    LET st == S.states[s] IN
    IF m.id \in DOMAIN st.pendingMessages
    THEN LET c == PendingLookup(st, m.id)
             S1 == [S EXCEPT !.states[s].pendingMessages = MapDelete(@, m.id)]
         IN  Settle(S1, c, [by |-> "reply", rid |-> m.id,
                            outcome |-> IF m.error THEN "reject" ELSE "resolve",
                            result |-> m.result])
    ELSE S

\* A handler that looks for the id before it looks for progress.
OnMessageIdFirst(S, s, m) ==
    IF "id" \in DOMAIN m /\ m.id \in DOMAIN S.states[s].pendingMessages
    THEN OnReply(S, s, [kind |-> "reply", id |-> m.id,
                        error |-> IF "error" \in DOMAIN m THEN m.error ELSE FALSE,
                        result |-> IF "result" \in DOMAIN m THEN m.result
                                   ELSE NoResult])
    ELSE IF m.kind = "progress" THEN OnEvent(S, s, "loading")
    ELSE IF m.kind = "ready"
    THEN OnEvent([S EXCEPT !.states[s].ready = TRUE,
                           !.states[s].loading = FALSE], s, "ready")
    ELSE S

\* worker.onmessage, lines 76-104.  m.kind is the first of progress and
\* ready the message carries ("progress", "ready"), or else "reply" when it
\* carries an id and "other" when it carries none of them.
OnMessage(S, s, m) ==
    IF m.kind = "progress" THEN OnEvent(S, s, "loading")
    ELSE IF m.kind = "ready"
    THEN OnEvent([S EXCEPT !.states[s].ready = TRUE,
                           !.states[s].loading = FALSE], s, "ready")
    ELSE IF "id" \in DOMAIN m THEN OnReply(S, s, m)
    ELSE S

\* An error handler that also takes the controller out of the ready status.
OnWorkerErrorResetsReady(S, s) ==
    OnEvent([S EXCEPT !.states[s].error = TRUE,
                      !.states[s].loading = FALSE,
                      !.states[s].ready = FALSE], s, "error")

\* worker.onerror, lines 106-113.
OnWorkerError(S, s) ==
    OnEvent([S EXCEPT !.states[s].error = TRUE,
                      !.states[s].loading = FALSE], s, "error")

\* A callback that does not look for its entry.
TimeoutAlwaysPending(st, id) == TRUE

\* The setTimeout callback of sendMessage, lines 148-153.  The timer is never
\* cleared; when the entry is gone the callback does nothing.
TimeoutStillPending(st, id) == id \in DOMAIN st.pendingMessages

\* A callback that rejects and leaves the entry in the map.
OnCallTimeoutKeepsEntry(S, c) ==
    Settle([S EXCEPT !.calls[c].timer = "fired"],
           c, [by |-> "timeout", rid |-> S.calls[c].id, outcome |-> "reject",
               result |-> NoResult])

OnCallTimeout(S, c) ==
    LET s  == S.calls[c].state
        id == S.calls[c].id
    IN  Settle([S EXCEPT !.calls[c].timer = "fired",
                         !.states[s].pendingMessages = MapDelete(@, id)],
               c, [by |-> "timeout", rid |-> id, outcome |-> "reject",
                   result |-> NoResult])

\* initializeDjango, lines 157-178.  `throws`: `new Worker` throws.
InitGuard(st) == st.loading \/ st.ready

initializeDjango(S, s, throws) ==
    LET st == S.states[s] IN
    IF InitGuard(st) THEN S
    ELSE IF throws
    THEN OnEvent([S EXCEPT !.states[s].loading = FALSE,
                           !.states[s].error = TRUE], s, "error")
    ELSE LET w == Len(S.workers) + 1 IN
         [S EXCEPT !.states[s].loading = TRUE,
                   !.states[s].error = FALSE,
                   !.states[s].worker = w,
                   !.workers = Append(@, NewWorker(s))]

\* destroyDjango, lines 287-295.  terminate() also discards what the worker
\* had posted and the host had not yet received.
\* (`cleared` only records, for the properties, that the entry of a call was
\* dropped by pendingMessages.clear().)
MarkCleared(S, s) ==
    LET pm == S.states[s].pendingMessages IN
    [c \in DOMAIN S.calls |->
        IF S.calls[c].state = s /\ S.calls[c].id \in DOMAIN pm
           /\ pm[S.calls[c].id] = c
        THEN [S.calls[c] EXCEPT !.cleared = TRUE] ELSE S.calls[c]]

\* A destroyDjango that terminates the worker and leaves the map as it is.
destroyDjangoKeepsPending(S, s) ==
    LET st == S.states[s]
        S1 == IF st.worker # 0
              THEN [S EXCEPT !.workers[st.worker] = Terminated(@),
                             !.states[s].worker = 0]
              ELSE S
    IN  [S1 EXCEPT !.states[s].ready = FALSE,
                   !.states[s].loading = FALSE]

\* A destroyDjango that also starts the id counter again.
destroyDjangoResetsIds(S, s) ==
    LET st == S.states[s]
        S1 == IF st.worker # 0
              THEN [S EXCEPT !.workers[st.worker] = Terminated(@),
                             !.states[s].worker = 0]
              ELSE S
    IN  [S1 EXCEPT !.states[s].pendingMessages = EmptyMap,
                   !.states[s].messageId = 0,
                   !.states[s].ready = FALSE,
                   !.states[s].loading = FALSE,
                   !.calls = MarkCleared(S, s)]

destroyDjango(S, s) ==
    LET st == S.states[s]
        S1 == IF st.worker # 0
              THEN [S EXCEPT !.workers[st.worker] = Terminated(@),
                             !.states[s].worker = 0]
              ELSE S
    IN  [S1 EXCEPT !.states[s].pendingMessages = EmptyMap,
                   !.states[s].ready = FALSE,
                   !.states[s].loading = FALSE,
                   !.calls = MarkCleared(S, s)]

(***************************************************************************)
(* The DjangoPlayground singleton.                                         *)
(*                                                                         *)
(* pg holds the fields of the current instance; pg.gen counts the          *)
(* instances that destroy() has released.  A run or an API call belongs    *)
(* to the instance it was made on: `this` of an older instance has         *)
(* state = null, initialized = false, initPromise = null.                  *)
(***************************************************************************)
NoConfig ==
    [packages |-> <<>>, autoRender |-> FALSE, onReady |-> FALSE,
     onError |-> FALSE, set |-> FALSE]

NoInstance ==
    [gen |-> 0, state |-> 0, initialized |-> FALSE, initPromise |-> 0,
     config |-> NoConfig]

NoPass == [elems |-> <<>>, k |-> 0, orig |-> <<>>, outcomes |-> <<>>]

Template == [kind |-> "T", src |-> <<>>]
Loading == [kind |-> "L", src |-> <<>>]
ErrorBox == [kind |-> "E", src |-> <<>>]
Rendered(tpl) == [kind |-> "R", src |-> <<tpl>>]

ThisState(S, gen) == IF gen = S.pg.gen THEN S.pg.state ELSE 0

GetOwner(S, o) == IF o.kind = "run" THEN S.runs[o.i] ELSE S.api[o.i]
SetOwner(S, o, rec) ==
    IF o.kind = "run" THEN [S EXCEPT !.runs[o.i] = rec]
    ELSE [S EXCEPT !.api[o.i] = rec]

\* extractElementData + scanDOMForTemplates, lines 568-580 and 613-652: the
\* elements that carry data-django-template and whose attributes parse, each
\* with the template it shows now.
RECURSIVE ScanFrom(_, _)
ScanFrom(d, i) ==
    IF i > Len(d) THEN <<>>
    ELSE IF d[i].tpl /\ d[i].valid
    THEN << [el |-> i, template |-> d[i].html, packages |-> d[i].packages] >>
         \o ScanFrom(d, i + 1)
    ELSE ScanFrom(d, i + 1)

\* scanDOMForTemplates, lines 582-600: the lists of the elements that carry
\* data-django-packages and no data-django-template, in document order.
RECURSIVE StandaloneFrom(_, _)
StandaloneFrom(d, i) ==
    IF i > Len(d) THEN <<>>
    ELSE IF ~d[i].tpl /\ d[i].valid THEN d[i].packages \o StandaloneFrom(d, i + 1)
    ELSE StandaloneFrom(d, i + 1)

\* `[...new Set(list)]`: the first occurrence of each name, in order.
RECURSIVE Dedupe(_)
Dedupe(list) ==
    IF list = <<>> THEN <<>>
    ELSE LET front == Dedupe(SubSeq(list, 1, Len(list) - 1))
             last  == list[Len(list)]
         IN  IF \E i \in DOMAIN front : front[i] = last THEN front
             ELSE Append(front, last)

\* packages.push(...elementData.packages), over the scanned elements.
RECURSIVE PackagesFrom(_, _)
PackagesFrom(els, i) ==
    IF i > Len(els) THEN <<>> ELSE els[i].packages \o PackagesFrom(els, i + 1)

\* scanDOMForTemplates, lines 561-611; every element whose attributes do
\* not parse adds one error.
scanDOMForTemplates(d) ==
    LET els == ScanFrom(d, 1) IN
    [elements |-> els,
     packages |-> Dedupe(PackagesFrom(els, 1) \o StandaloneFrom(d, 1)),
     success |-> \A i \in DOMAIN d : d[i].valid]

\* renderTemplate (host), lines 180-206, on the settled sendMessage promise.
RenderSucceeded(how) ==
    how.outcome = "resolve" /\ how.result.shape = "map" /\ how.result.success

\* A renderTemplate that returns whatever the reply carries, whether the
\* reply reports success or not.
RenderResultIgnoresSuccess(how) ==
    IF how.outcome = "resolve"
    THEN [outcome |-> "resolved", error |-> "none", value |-> how.result.value]
    ELSE [outcome |-> "rejected", error |-> "TemplateRenderError", value |-> <<>>]

\* renderTemplate (host), lines 180-206: what its promise settles with.
\* Whatever is thrown in the try (the rejection of sendMessage, a
\* WorkerNotReadyError, the TypeError of `result.get` on a plain object)
\* leaves as a TemplateRenderError.
RenderResult(how) ==
    IF RenderSucceeded(how)
    THEN [outcome |-> "resolved", error |-> "none", value |-> how.result.value]
    ELSE [outcome |-> "rejected", error |-> "TemplateRenderError", value |-> <<>>]

\* sendMessage threw before it allocated an id (lines 131-139), or was
\* called on a null state.
NotSent == [by |-> "notSent", rid |-> 0, outcome |-> "reject", result |-> NoResult]

\* The promise of API call a settles; `got` keeps what the request it
\* awaited last had settled with.
ApiSettle(S, a, res, how) ==
    [S EXCEPT !.api[a].pc = "done", !.api[a].outcome = res.outcome,
              !.api[a].error = res.error, !.api[a].value = res.value,
              !.api[a].got = [at |-> S.api[a].pc, by |-> how.by,
                              outcome |-> how.outcome, result |-> how.result]]

ApiReject(S, a, error, how) ==
    ApiSettle(S, a, [outcome |-> "rejected", error |-> error, value |-> <<>>], how)

RECURSIVE PassFrom(_, _, _)
RECURSIVE PassDone(_, _)
RECURSIVE ResumeCallers(_, _, _, _)
RECURSIVE RunFail(_, _)

\* A loop without its try/catch: the element is restored and the error
\* leaves renderDOMTemplates.
ElemFailAborts(S, o, k) ==
    LET own == GetOwner(S, o)
        el  == own.pass.elems[k].el
        S1  == [S EXCEPT !.dom[el].html = own.pass.orig[1]]
    IN  IF o.kind = "run" THEN RunFail(S1, o.i)
        ELSE [S1 EXCEPT !.api[o.i].pc = "done", !.api[o.i].outcome = "rejected"]

\* A catch that restores the element and shows no error.
ElemFailRestores(S, o, k) ==
    LET own == GetOwner(S, o)
        el  == own.pass.elems[k].el
        S1  == [S EXCEPT !.dom[el].html = own.pass.orig[1]]
    IN  PassFrom(SetOwner(S1, o, [own EXCEPT !.pass.outcomes = Append(@, "error")]),
                 o, k + 1)

\* The catch of renderDOMElement, then showElementError (lines 696-708),
\* and the loop of renderDOMTemplates goes on.
ElemFail(S, o, k) ==
    LET own == GetOwner(S, o)
        el  == own.pass.elems[k].el
        S1  == [S EXCEPT !.dom[el].html = ErrorBox]
    IN  PassFrom(SetOwner(S1, o, [own EXCEPT !.pass.outcomes = Append(@, "error")]),
                 o, k + 1)

\* renderDOMElement, lines 689-695.
ElemRendered(S, o, k) ==
    LET own == GetOwner(S, o)
        e   == own.pass.elems[k]
        S1  == [S EXCEPT !.dom[e.el].html = Rendered(e.template)]
    IN  PassFrom(SetOwner(S1, o, [own EXCEPT !.pass.outcomes = Append(@, "rendered")]),
                 o, k + 1)

\* renderDOMElement, line 690: the render request of element k.  When the
\* request cannot be sent (no state, no worker, not ready) the promise is
\* born rejected and the pass is suspended on it (pc "elemThrew").
ElemRender(S, o, k) ==
    LET own == GetOwner(S, o)
        s   == ThisState(S, own.gen)
        e   == own.pass.elems[k]
    IN  IF s # 0 /\ SendAllowed(S, s)
        THEN sendMessage(SetOwner(S, o, [own EXCEPT !.pc = "elemRender"]), s,
                         "renderTemplate",
                         [template |-> e.template, context |-> "c"], o)
        ELSE SetOwner(S, o, [own EXCEPT !.pc = "elemThrew"])

\* A renderDOMElement that does not await its install request: the render
\* request follows it at once.
PassFromSendsBoth(S, o, k) ==
    LET own == GetOwner(S, o) IN
    IF k > Len(own.pass.elems) THEN PassDone(S, o)
    ELSE LET e  == own.pass.elems[k]
             s  == ThisState(S, own.gen)
             own1 == [own EXCEPT !.pass.k = k, !.pass.orig = <<S.dom[e.el].html>>]
             S1 == SetOwner([S EXCEPT !.dom[e.el].html = Loading], o, own1)
         IN  IF e.packages # <<>> /\ s # 0 /\ SendAllowed(S1, s)
             THEN ElemRender(sendMessage(S1, s, "installPackages",
                                         [packages |-> e.packages], o), o, k)
             ELSE ElemRender(S1, o, k)

\* renderDOMTemplates, lines 662-669, from element k on; renderDOMElement,
\* lines 672-687, up to its first await (on a request, or on a promise that
\* was born rejected: pc "elemThrew").
PassFrom(S, o, k) ==
    LET own == GetOwner(S, o) IN
    IF k > Len(own.pass.elems) THEN PassDone(S, o)
    ELSE LET e  == own.pass.elems[k]
             s  == ThisState(S, own.gen)
             own1 == [own EXCEPT !.pass.k = k, !.pass.orig = <<S.dom[e.el].html>>]
             S1 == SetOwner([S EXCEPT !.dom[e.el].html = Loading], o, own1)
         IN  IF e.packages # <<>>
             THEN IF s # 0 /\ SendAllowed(S1, s)
                  THEN sendMessage(SetOwner(S1, o, [own1 EXCEPT !.pc = "elemInstall"]),
                                   s, "installPackages",
                                   [packages |-> e.packages], o)
                  ELSE SetOwner(S1, o, [own1 EXCEPT !.pc = "elemThrew"])
             ELSE ElemRender(S1, o, k)

\* renderDOMTemplates, lines 654-660.
StartPass(S, o) ==
    LET own == GetOwner(S, o)
        scan == scanDOMForTemplates(S.dom)
    IN  PassFrom(SetOwner(S, o, [own EXCEPT !.pass = [NoPass EXCEPT !.elems = scan.elements]]),
                 o, 1)

\* this.config of the instance numbered gen was stored by its latest
\* doInitialize; a released instance has an empty config.
RECURSIVE ConfigRun(_, _, _)
ConfigRun(S, gen, r) ==
    IF r = 0 \/ gen # S.pg.gen \/ ~S.pg.config.set THEN 0
    ELSE IF S.runs[r].gen = gen THEN r
    ELSE ConfigRun(S, gen, r - 1)

\* `if (this.config.onError) this.config.onError(error)`: the callback of
\* the config the instance holds now, if that config has one.
\* runs[r].onError keeps the element passed with each invocation (0: none).
CallOnError(S, gen, el) ==
    LET r == ConfigRun(S, gen, Len(S.runs)) IN
    IF r = 0 \/ ~S.runs[r].config.onError THEN S
    ELSE [S EXCEPT !.runs[r].onError = Append(@, el)]

\* The catch of doInitialize, lines 528-539.
RunFail(S, r) ==
    LET run == S.runs[r]
        S1 == [S EXCEPT !.runs[r].pc = "done",
                        !.runs[r].outcome = "rejected",
                        !.runs[r].waitTimer = IF @ = "armed" THEN "cleared" ELSE @,
                        !.pg.initPromise = IF run.gen = S.pg.gen THEN 0 ELSE @]
    IN  ResumeCallers(CallOnError(S1, run.gen, 0), r, "rejected", 1)

\* doInitialize, lines 523-527.
MarkInitialized(S, r) ==
    IF S.runs[r].gen = S.pg.gen THEN [S EXCEPT !.pg.initialized = TRUE] ELSE S

\* `if (this.config.onReady) this.config.onReady()`, lines 525-527.
\* runs[r].onReady keeps, for each invocation, whether the controller was
\* initialized and ready.
CallOnReady(S, gen) ==
    LET r == ConfigRun(S, gen, Len(S.runs)) IN
    IF r = 0 \/ ~S.runs[r].config.onReady THEN S
    ELSE [S EXCEPT !.runs[r].onReady =
             Append(@, S.pg.initialized /\ S.pg.state # 0
                          /\ S.states[S.pg.state].ready)]

RunFinish(S, r) ==
    LET S1 == [MarkInitialized(S, r) EXCEPT !.runs[r].pc = "done",
                                            !.runs[r].outcome = "resolved"]
    IN  ResumeCallers(CallOnReady(S1, S.runs[r].gen), r, "resolved", 1)

\* An initialization that sets `initialized` before its DOM pass.
RunAfterInstallMarksFirst(S, r) ==
    IF S.runs[r].config.autoRender
    THEN StartPass([MarkInitialized(S, r) EXCEPT !.runs[r].passStarted = TRUE],
                   [kind |-> "run", i |-> r])
    ELSE RunFinish(S, r)

\* doInitialize, lines 518-521.
RunAfterInstall(S, r) ==
    IF S.runs[r].config.autoRender
    THEN StartPass([S EXCEPT !.runs[r].passStarted = TRUE], [kind |-> "run", i |-> r])
    ELSE RunFinish(S, r)

\* doInitialize, lines 505-516, after waitForReady has resolved.
RunAfterReady(S, r) ==
    LET run == S.runs[r]
        s   == ThisState(S, run.gen)
    IN  IF run.unique # <<>>
        THEN IF s # 0 /\ SendAllowed(S, s)
             THEN sendMessage([S EXCEPT !.runs[r].pc = "install"], s,
                              "installPackages", [packages |-> run.unique],
                              [kind |-> "run", i |-> r])
             ELSE RunFail(S, r)
        ELSE RunAfterInstall(S, r)

\* waitForReady, lines 710-744: it throws when this.state is null (lines
\* 711-713); lines 720-724 arm the timer.
WaitHasTimeout == TRUE

waitForReady(S, r) ==
    LET s == ThisState(S, S.runs[r].gen) IN
    IF s = 0 THEN RunFail(S, r)
    ELSE IF S.states[s].ready THEN RunAfterReady(S, r)
    ELSE [S EXCEPT !.runs[r].pc = "waitReady",
                   !.runs[r].waitTimer = IF WaitHasTimeout THEN "armed" ELSE "none"]

\* renderDOMTemplates has gone through its elements.
PassDone(S, o) ==
    IF o.kind = "run" THEN RunFinish(S, o.i)
    ELSE [S EXCEPT !.api[o.i].pc = "done", !.api[o.i].outcome = "resolved"]

\* DjangoPlayground.render, lines 401-409, once ensureInitialized is through.
RenderBody(S, a) ==
    LET call == S.api[a]
        s    == ThisState(S, call.gen)
        o    == [kind |-> "api", i |-> a]
    IN  IF s = 0 \/ ~SendAllowed(S, s)
        THEN IF call.packages = <<>> THEN ApiSettle(S, a, RenderResult(NotSent), NotSent)
             ELSE ApiReject(S, a, IF s = 0 THEN "TypeError" ELSE "WorkerNotReadyError",
                            NotSent)
        ELSE IF call.packages # <<>>
        THEN sendMessage([S EXCEPT !.api[a].pc = "install"], s,
                         "installPackages", [packages |-> call.packages], o)
        ELSE sendMessage([S EXCEPT !.api[a].pc = "render"], s,
                         "renderTemplate", [template |-> Template, context |-> "c"], o)

\* The callers awaiting the promise of run r go on, in the order they came.
ResumeCallers(S, r, outcome, a) ==
    IF a > Len(S.api) THEN S
    ELSE IF S.api[a].run = r /\ S.api[a].pc = "awaitInit"
    THEN LET S1 ==
               IF outcome = "rejected"
               THEN [S EXCEPT !.api[a].pc = "done", !.api[a].outcome = outcome,
                              !.api[a].error = "DjangoPlaygroundError"]
               ELSE IF S.api[a].kind = "init"
               THEN [S EXCEPT !.api[a].pc = "done", !.api[a].outcome = outcome]
               ELSE IF S.api[a].kind = "render" THEN RenderBody(S, a)
               ELSE StartPass(S, [kind |-> "api", i |-> a])
         IN  ResumeCallers(S1, r, outcome, a + 1)
    ELSE ResumeCallers(S, r, outcome, a + 1)

\* doInitialize, line 508: `!installResult.success &&
\* installResult.errors?.length`.
InstallReportsErrors(result) ==
    /\ ~result.success
    /\ "errors" \in DOMAIN result
    /\ result.errors # <<>>

\* The continuation of doInitialize after an awaited sendMessage settled.
RunResume(S, r, how) ==
    LET pc == S.runs[r].pc
        o  == [kind |-> "run", i |-> r]
    IN  IF pc = "install"
        THEN IF how.outcome = "resolve"
             THEN RunAfterInstall(IF InstallReportsErrors(how.result)
                                  THEN CallOnError(S, S.runs[r].gen, 0)
                                  ELSE S, r)
             ELSE RunFail(S, r)
        ELSE IF pc = "elemInstall"
        THEN IF how.outcome = "resolve" THEN ElemRender(S, o, S.runs[r].pass.k)
             ELSE ElemFail(S, o, S.runs[r].pass.k)
        ELSE IF pc = "elemRender"
        THEN IF RenderSucceeded(how) THEN ElemRendered(S, o, S.runs[r].pass.k)
             ELSE ElemFail(S, o, S.runs[r].pass.k)
        ELSE S

\* The continuation of render / renderDOM after an awaited request settled.
ApiResume(S, a, how) ==
    LET pc == S.api[a].pc
        o  == [kind |-> "api", i |-> a]
        s  == ThisState(S, S.api[a].gen)
    IN  IF pc = "install"
        THEN IF how.outcome = "reject" THEN ApiReject(S, a, "Error", how)
             ELSE IF ~how.result.success
             THEN ApiReject(S, a, "PackageInstallError", how)
             ELSE IF s # 0 /\ SendAllowed(S, s)
             THEN sendMessage([S EXCEPT !.api[a].pc = "render"], s,
                              "renderTemplate",
                              [template |-> Template, context |-> "c"], o)
             ELSE ApiSettle(S, a, RenderResult(NotSent), NotSent)
        ELSE IF pc = "render"
        THEN ApiSettle(S, a, RenderResult(how), how)
        ELSE IF pc = "elemInstall"
        THEN IF how.outcome = "resolve" THEN ElemRender(S, o, S.api[a].pass.k)
             ELSE ElemFail(S, o, S.api[a].pass.k)
        ELSE IF pc = "elemRender"
        THEN IF RenderSucceeded(how) THEN ElemRendered(S, o, S.api[a].pass.k)
             ELSE ElemFail(S, o, S.api[a].pass.k)
        ELSE S

Resume(S, waiter, how) ==
    IF waiter.kind = "run" THEN RunResume(S, waiter.i, how)
    ELSE IF waiter.kind = "api" THEN ApiResume(S, waiter.i, how)
    ELSE S

\* The listeners of waitForReady (lines 726-742) on the event target of
\* state s: the run made on s, while it waits.
RECURSIVE WaitingRun(_, _, _)
WaitingRun(S, s, r) ==
    IF r > Len(S.runs) THEN 0
    ELSE IF S.runs[r].state = s /\ S.runs[r].pc = "waitReady" THEN r
    ELSE WaitingRun(S, s, r + 1)

\* The run that made state s and registered its listeners on it
\* (setupEventListeners, lines 542-559); 0 for a createDjango state.
RECURSIVE RunOfState(_, _, _)
RunOfState(S, s, r) ==
    IF r > Len(S.runs) THEN 0
    ELSE IF S.runs[r].state = s THEN r
    ELSE RunOfState(S, s, r + 1)

\* emitEvent, lines 116-124: the listeners in the order of registration,
\* the error listener of setupEventListeners before those of waitForReady.
\* setupEventListeners registers it only when the config of that
\* initialization has onError (line 553), and the listener calls the
\* onError of the config the instance holds when the event comes (line 556).
OnEvent(S, s, type) ==
    LET r  == WaitingRun(S, s, 1)
        r0 == RunOfState(S, s, 1)
        S1 == IF type = "error" /\ r0 # 0 /\ S.runs[r0].config.onError
              THEN CallOnError(S, S.runs[r0].gen, 0) ELSE S
    IN  IF r = 0 \/ type = "loading" THEN S1
        ELSE IF type = "ready"
        THEN RunAfterReady([S1 EXCEPT !.runs[r].waitTimer = "cleared"], r)
        ELSE RunFail(S1, r)

\* The setTimeout callback of waitForReady, lines 720-724: on an instance
\* that destroy() has released, this.state is null and the callback throws
\* before it rejects.
OnWaitTimeout(S, r) ==
    LET S1 == [S EXCEPT !.runs[r].waitTimer = "fired"] IN
    IF ThisState(S, S.runs[r].gen) = 0 THEN S1
    ELSE RunFail(S1, r)

\* doInitialize, lines 473-500, up to `await initializeDjango(this.state)`:
\* the call of initializeDjango has run (lines 157-178) and the function is
\* suspended on the promise it returned, which is resolved, or rejected when
\* `new Worker` threw.
doInitialize(S, a, options, throws) ==
    LET r == Len(S.runs) + 1
        s == Len(S.states) + 1
        config == [packages |-> options.packages,
                   autoRender |-> options.autoRender,
                   onReady |-> options.onReady,
                   onError |-> options.onError, set |-> TRUE]
        scan == scanDOMForTemplates(S.dom)
        allPackages == options.packages \o scan.packages
        unique == Dedupe(allPackages)
        S1 == [S EXCEPT
                 !.pg.config = config,
                 !.pg.state = s,
                 !.states = Append(@, createInitialState(unique, config.autoRender)),
                 !.runs = Append(@, [gen |-> S.pg.gen, state |-> s, by |-> a,
                                     config |-> config, unique |-> unique,
                                     pc |-> IF throws THEN "initThrew" ELSE "init",
                                     outcome |-> "pending",
                                     waitTimer |-> "none", passStarted |-> FALSE,
                                     pass |-> NoPass, onError |-> <<>>,
                                     onReady |-> <<>>])]
    IN  initializeDjango(S1, s, throws)

\* initialize, lines 460-471, for API call a (already appended to api).
RecordInit(S, a) == [S EXCEPT !.pg.initPromise = Len(S.runs) + 1]

\* An initialize that does not look at initPromise, and one that does not
\* look at `initialized`.
initializeNoJoin(S, a, options, throws) ==
    IF S.pg.initialized
    THEN [S EXCEPT !.api[a].initDone = TRUE]
    ELSE doInitialize([RecordInit(S, a) EXCEPT !.api[a].run = Len(S.runs) + 1,
                                               !.api[a].pc = "awaitInit"],
                      a, options, throws)

initializeAgain(S, a, options, throws) ==
    IF S.pg.initPromise # 0 /\ ~S.pg.initialized
    THEN [S EXCEPT !.api[a].run = S.pg.initPromise, !.api[a].pc = "awaitInit"]
    ELSE doInitialize([RecordInit(S, a) EXCEPT !.api[a].run = Len(S.runs) + 1,
                                               !.api[a].pc = "awaitInit"],
                      a, options, throws)

initialize(S, a, options, throws) ==
    IF S.pg.initialized
    THEN [S EXCEPT !.api[a].initDone = TRUE]
    ELSE IF S.pg.initPromise # 0
    THEN [S EXCEPT !.api[a].run = S.pg.initPromise, !.api[a].pc = "awaitInit"]
    ELSE LET r  == Len(S.runs) + 1
             S1 == [RecordInit(S, a) EXCEPT !.api[a].run = r,
                                            !.api[a].pc = "awaitInit"]
         IN  doInitialize(S1, a, options, throws)

\* Options under which nothing is rendered by the initialization.
DefaultOptionsNoRender ==
    [packages |-> <<>>, autoRender |-> FALSE, onReady |-> FALSE,
     onError |-> FALSE]

\* The `{}` ensureInitialized passes to initialize (line 748), as doInitialize
\* reads it (lines 476-483): no packages, autoRender !== false, no callbacks.
DefaultOptions ==
    [packages |-> <<>>, autoRender |-> TRUE, onReady |-> FALSE,
     onError |-> FALSE]

\* An ensureInitialized that does not wait for the initialization.
ensureInitializedSkips(S, a, throws) == [S EXCEPT !.api[a].initDone = TRUE]

\* ensureInitialized, lines 746-750.
ensureInitialized(S, a, throws) ==
    IF ~S.pg.initialized THEN initialize(S, a, DefaultOptions, throws)
    ELSE [S EXCEPT !.api[a].initDone = TRUE]

\* A new API call on the current instance; `inflight` records the
\* initialization of this instance that was running when the call came.
RECURSIVE PendingRun(_, _)
PendingRun(S, r) ==
    IF r > Len(S.runs) THEN 0
    ELSE IF S.runs[r].gen = S.pg.gen /\ S.runs[r].outcome = "pending" THEN r
    ELSE PendingRun(S, r + 1)

NewApi(S, kind, packages) ==
    [kind |-> kind, gen |-> S.pg.gen, packages |-> packages, run |-> 0,
     inflight |-> PendingRun(S, 1), wasReady |-> S.pg.initialized,
     initDone |-> FALSE, pc |-> "start", outcome |-> "pending",
     error |-> "none", value |-> <<>>,
     got |-> [at |-> "none", by |-> "none", outcome |-> "none",
              result |-> NoResult],
     pass |-> NoPass]

\* DjangoPlayground.init, lines 388-391.
PlaygroundInit(S, options, throws) ==
    LET a  == Len(S.api) + 1
        S1 == initialize([S EXCEPT !.api = Append(@, NewApi(S, "init", options.packages))],
                         a, options, throws)
    IN  IF S1.api[a].initDone
        THEN [S1 EXCEPT !.api[a].pc = "done", !.api[a].outcome = "resolved"]
        ELSE S1

\* DjangoPlayground.render, lines 393-410.
PlaygroundRender(S, packages, throws) ==
    LET a  == Len(S.api) + 1
        S1 == ensureInitialized(
                 [S EXCEPT !.api = Append(@, NewApi(S, "render", packages))],
                 a, throws)
    IN  IF S1.api[a].initDone THEN [S1 EXCEPT !.api[a].pc = "called"] ELSE S1

\* DjangoPlayground.renderDOM, lines 454-458.
PlaygroundRenderDOM(S, throws) ==
    LET a  == Len(S.api) + 1
        S1 == ensureInitialized(
                 [S EXCEPT !.api = Append(@, NewApi(S, "renderDOM", <<>>))],
                 a, throws)
    IN  IF S1.api[a].initDone THEN [S1 EXCEPT !.api[a].pc = "called"] ELSE S1

\* doInitialize resumes after `await initializeDjango(...)`: the catch when
\* the promise was rejected, else waitForReady (line 503).
RunContinue(S, r) ==
    IF S.runs[r].pc = "initThrew" THEN RunFail(S, r) ELSE waitForReady(S, r)

\* render() / renderDOM() resume after `await instance.ensureInitialized()`
\* (lines 399 and 456), on the instance the call was made on.
ApiContinue(S, a) ==
    IF S.api[a].kind = "render" THEN RenderBody(S, a)
    ELSE StartPass(S, [kind |-> "api", i |-> a])

\* The run that API call a started and that is suspended at line 500.
StartedBy(S, a) ==
    {r \in DOMAIN S.runs : S.runs[r].by = a /\ S.runs[r].pc \in {"init", "initThrew"}}

\* The queued continuations run, in the order of the calls that queued them.
RECURSIVE Drain(_, _)
Drain(S, a) ==
    IF a > Len(S.api) THEN S
    ELSE IF S.api[a].pc = "called" THEN Drain(ApiContinue(S, a), a + 1)
    ELSE IF StartedBy(S, a) # {}
    THEN Drain(RunContinue(S, CHOOSE r \in StartedBy(S, a) : TRUE), a + 1)
    ELSE Drain(S, a + 1)

\* A pass suspended on a promise that was born rejected resumes in the
\* catch of renderDOMElement.
ElemThrown(S, o) == ElemFail(S, o, GetOwner(S, o).pass.k)

ThrewOwners(S) ==
    {[kind |-> "run", i |-> r] : r \in {q \in DOMAIN S.runs : S.runs[q].pc = "elemThrew"}}
       \cup {[kind |-> "api", i |-> a] :
                a \in {b \in DOMAIN S.api : S.api[b].pc = "elemThrew"}}

\* One turn of each suspended pass, in the order of the calls they come
\* from: the pass of the run call a started, then the pass of call a.
RECURSIVE FlushRound(_, _)
FlushRound(S, a) ==
    IF a > Len(S.api) THEN S
    ELSE LET R  == {r \in DOMAIN S.runs :
                       S.runs[r].by = a /\ S.runs[r].pc = "elemThrew"}
             S1 == IF R # {}
                   THEN ElemThrown(S, [kind |-> "run", i |-> CHOOSE r \in R : TRUE])
                   ELSE S
             S2 == IF S1.api[a].pc = "elemThrew"
                   THEN ElemThrown(S1, [kind |-> "api", i |-> a])
                   ELSE S1
         IN  FlushRound(S2, a + 1)

\* The microtasks of a task run until none is left: passes that fail
\* without a request take turns, element by element.
RECURSIVE Flush(_)
Flush(S) == IF ThrewOwners(S) = {} THEN S ELSE Flush(FlushRound(S, 1))

\* The store after a task and its microtasks becomes the next state.
Commit(S) ==
    \E U \in {S} : \E T \in {Flush(U)} :
       /\ states' = T.states
       /\ workers' = T.workers
       /\ calls' = T.calls
       /\ pg' = T.pg
       /\ runs' = T.runs
       /\ api' = T.api
       /\ dom' = T.dom
       /\ UNCHANGED env

\* DjangoPlayground.cleanup / destroy, lines 412-415 and 766-775.
destroy(S) ==
    LET S1 == IF S.pg.state # 0 THEN destroyDjango(S, S.pg.state) ELSE S
    IN  [S1 EXCEPT !.pg = [NoInstance EXCEPT !.gen = S.pg.gen + 1]]

\* DjangoPlayground.isReady, lines 417-420.
IsReady(S) ==
    S.pg.initialized /\ S.pg.state # 0 /\ S.states[S.pg.state].ready

(***************************************************************************)
(* The worker (pyodide.worker.ts).                                         *)
(*                                                                         *)
(* One step of the worker is one of its tasks: a promise of a collaborator *)
(* (Pyodide, micropip) settles and the code runs on to its next await of a *)
(* collaborator, or a message event is handled.  workers[w].inbox holds,   *)
(* in the order of the message events, the requests whose handler has not  *)
(* passed `await initPromise` (line 306): while the bootstrap runs these   *)
(* are handlers suspended at that await, which all resume in the task in   *)
(* which the bootstrap ends and interleave at their awaits; afterwards     *)
(* they are message events not yet dispatched, each of which is a task of  *)
(* its own.  workers[w].awaiting holds the handlers suspended at a         *)
(* collaborator; workers[w].invoked records the calls of micropip.install  *)
(* in their order, each with its name and how it ended ("pending" until    *)
(* then).                                                                  *)
(***************************************************************************)
ErrorReply(m) == [kind |-> "reply", id |-> m.id, error |-> TRUE,
                  result |-> NoResult]
ResultReply(m, r) == [kind |-> "reply", id |-> m.id, error |-> FALSE,
                      result |-> r]

NamesIn(list) == {list[i] : i \in DOMAIN list}

\* The package names a batch-install request is about, in whichever field.
RequestedNames(m) ==
    IF "packageNames" \in DOMAIN m.data THEN NamesIn(m.data.packageNames)
    ELSE IF "packages" \in DOMAIN m.data THEN NamesIn(m.data.packages)
    ELSE {}

\* The templates of a batchRender request (none when the field is missing).
BatchTemplates(m) ==
    IF "templates" \in DOMAIN m.data THEN m.data.templates ELSE <<>>

\* How the template engine ends on one template: it returns a result, it
\* returns a result that reports a failure, or the call throws.
EngineOutcomes == {"ok", "engineError", "jsError"}

\* What the template engine does in one run of a handler: `run` is how it
\* ends, for batchRender on each template.
Fates(m) ==
    IF m.type = "renderTemplate" THEN {[run |-> r] : r \in EngineOutcomes}
    ELSE IF m.type = "batchRender"
    THEN {[run |-> r] : r \in [DOMAIN BatchTemplates(m) -> EngineOutcomes]}
    ELSE {[run |-> "ok"]}

\* renderTemplate (worker), lines 185-211: the engine's dict becomes a Map
\* (toJs); the catch branch returns a plain object.
workerRenderTemplate(m, fate) ==
    IF fate.run = "ok"
    THEN [shape |-> "map", success |-> TRUE, value |-> <<Rendered(m.data.template)>>]
    ELSE IF fate.run = "engineError"
    THEN [shape |-> "map", success |-> FALSE, value |-> <<>>]
    ELSE [shape |-> "object", success |-> FALSE, value |-> <<>>]

\* batchRender, line 231: `renderResult.success` is read as a property, which
\* the Map that toJs() makes does not have.
ReadsSuccess(r) == r.shape = "object" /\ r.success

\* batchRender, lines 231-234: the (0-based) numbers of the templates for
\* which an error is pushed.
RECURSIVE BatchErrors(_, _)
BatchErrors(results, i) ==
    IF i > Len(results) THEN <<>>
    ELSE (IF ReadsSuccess(results[i]) THEN <<>> ELSE << i - 1 >>)
            \o BatchErrors(results, i + 1)

\* batchRender (worker), lines 213-248: every template goes through
\* renderTemplate, which catches whatever the engine throws; fate.run[i] is
\* how the engine ends on template i.
workerBatchRender(templates, fate) ==
    LET results == [i \in DOMAIN templates |->
                       workerRenderTemplate([data |-> templates[i]],
                                            [run |-> fate.run[i]])]
    IN  [shape |-> "object",
         success |-> \A i \in DOMAIN results : ReadsSuccess(results[i]),
         results |-> results,
         errors |-> BatchErrors(results, 1)]

RemoveAt(q, i) == [j \in 1..(Len(q) - 1) |-> IF j < i THEN q[j] ELSE q[j + 1]]

\* A handler without its catch: what is thrown ends the handler and nothing
\* is posted.
HandlerPostsNoCatch(reply) == IF reply.error THEN <<>> ELSE << reply >>

\* The postMessage of one run of self.onmessage, lines 302-343: the one at
\* the end of the try (line 336) or the one of the catch (338-341).
HandlerPosts(reply) == << reply >>

Post(wk, reply) == [wk EXCEPT !.out = @ \o HandlerPosts(reply)]

EmptyBatchResult ==
    [shape |-> "object", success |-> TRUE, installed |-> <<>>,
     skipped |-> <<>>, errors |-> <<>>]

\* The requests whose handler calls micropip.install: installPackage, and
\* installPackages when data.packageNames is there to iterate.
IsInstall(m) ==
    \/ m.type = "installPackage"
    \/ m.type = "installPackages" /\ "packageNames" \in DOMAIN m.data

\* The names an install request walks through: the one name of
\* installPackage (line 312), the list of installPackages (line 317).
NamesOf(m) ==
    IF m.type = "installPackage" THEN << m.data.packageName >>
    ELSE m.data.packageNames

\* installPackage lines 144-147 and installPackages lines 163-168: from
\* position k the handler passes the names that are in installedPackages;
\* `at` is the position of the first name that is not (0 when the list is
\* exhausted), where micropip.install is called.
RECURSIVE Advance(_, _, _, _)
Advance(installed, names, k, res) ==
    IF k > Len(names) THEN [at |-> 0, res |-> res]
    ELSE IF names[k] \in installed
    THEN Advance(installed, names, k + 1,
                 [res EXCEPT !.skipped = Append(@, names[k])])
    ELSE [at |-> k, res |-> res]

\* The reply of an install handler that has reached its end.
InstallReply(m, res) ==
    IF m.type = "installPackage"
    THEN ResultReply(m, [shape |-> "object", success |-> TRUE])
    ELSE ResultReply(m, res)

\* An install that takes back every name of its request when one fails.
AfterInstallRollsBack(installed, names, at, ok) ==
    IF ok THEN installed \cup {names[at]} ELSE installed \ NamesIn(names)

\* installedPackages after micropip.install(names[at]) has settled: line 152
\* (installPackage) and line 173 (installPackages) add the name when the
\* call resolved.
AfterInstall(installed, names, at, ok) ==
    IF ok THEN installed \cup {names[at]} ELSE installed

\* self.onmessage, lines 302-343, for request m once initPromise has
\* settled: the handler runs to its first await of a collaborator or to its
\* end.  A handler that awaits is kept with its request, its place in the
\* list of names, its result so far and the number of its installer call.
Handle(wk, m, fate) ==
    IF wk.phase = "failed" THEN Post(wk, ErrorReply(m))
    ELSE IF IsInstall(m)
    THEN LET adv == Advance(wk.installed, NamesOf(m), 1, EmptyBatchResult) IN
         IF adv.at = 0 THEN Post(wk, InstallReply(m, adv.res))
         ELSE [wk EXCEPT !.awaiting = Append(@, [m |-> m, at |-> adv.at,
                                                 res |-> adv.res,
                                                 call |-> Len(wk.invoked) + 1]),
                         !.invoked = Append(@, [name |-> NamesOf(m)[adv.at],
                                                ended |-> "pending"])]
    ELSE IF m.type = "renderTemplate"
    THEN Post(wk, ResultReply(m, workerRenderTemplate(m, fate)))
    ELSE IF m.type = "batchRender" /\ "templates" \in DOMAIN m.data
    THEN Post(wk, ResultReply(m, workerBatchRender(m.data.templates, fate)))
    ELSE IF m.type = "runPython"
    THEN [wk EXCEPT !.awaiting = Append(@, [m |-> m, at |-> 0,
                                            res |-> EmptyBatchResult,
                                            call |-> 0])]
    ELSE Post(wk, ErrorReply(m))

\* A bootstrap whose ready message does not wait for the setup script.
BootPostsReadyEarly(stage, ok) ==
    IF stage = "pyodide" /\ ok THEN << [kind |-> "progress", step |-> "packages"] >>
    ELSE IF stage = "setup" /\ ok
    THEN << [kind |-> "progress", step |-> "ready"], [kind |-> "ready"] >>
    ELSE IF stage = "setup" THEN << [kind |-> "ready"] >>
    ELSE <<>>

\* initialize(), lines 113-141, and initPromise's then, lines 298-300: what
\* is posted when the await at `stage` has settled.
BootPosts(stage, ok) ==
    IF stage = "pyodide" /\ ok THEN << [kind |-> "progress", step |-> "packages"] >>
    ELSE IF stage = "setup" /\ ok
    THEN << [kind |-> "progress", step |-> "ready"], [kind |-> "ready"] >>
    ELSE <<>>

\* The awaits of initialize(): loadPyodide (line 121), loadPackage (131),
\* installPackage("django") (132; micropip.install is called at line 151) and
\* runPythonAsync (135).
BootNext(stage) ==
    IF stage = "pyodide" THEN "micropip"
    ELSE IF stage = "micropip" THEN "django"
    ELSE IF stage = "django" THEN "setup"
    ELSE "done"

\* The promise the bootstrap awaits settles.  When it rejects, initialize()
\* rejects and so does initPromise; when the last one resolves, the worker
\* is ready.
BootStep(wk, ok) ==
    LET wk1 == [wk EXCEPT !.out = @ \o BootPosts(wk.boot, ok)] IN
    IF wk.boot = "django"
    THEN [wk1 EXCEPT !.phase = IF ok THEN @ ELSE "failed",
                     !.boot = IF ok THEN "setup" ELSE "done",
                     !.installed = IF ok THEN @ \cup {"django"} ELSE @,
                     !.invoked[Len(wk.invoked)].ended =
                         IF ok THEN "ok" ELSE "failed"]
    ELSE IF ~ok THEN [wk1 EXCEPT !.phase = "failed", !.boot = "done"]
    ELSE IF wk.boot = "micropip"
    THEN [wk1 EXCEPT !.boot = "django",
                     !.invoked = Append(@, [name |-> "django",
                                            ended |-> "pending"])]
    ELSE IF wk.boot = "setup"
    THEN [wk1 EXCEPT !.phase = "ready", !.boot = "done"]
    ELSE [wk1 EXCEPT !.boot = BootNext(wk.boot)]

\* What the template engine does for each of the requests of queue q.
RECURSIVE EarlyFates(_)
EarlyFates(q) ==
    IF q = <<>> THEN { <<>> }
    ELSE {<<f>> \o r : f \in Fates(Head(q)), r \in EarlyFates(Tail(q))}

\* The number of awaits of settled promises between `await initPromise`
\* (line 306) and the point where the handler of m posts its reply or
\* suspends at a collaborator.  A rejected initPromise, the throw of the
\* default branch (line 333), micropip.install (lines 151, 172) and
\* loadPackagesFromImports (line 254) are reached at once; the await of an
\* async function that has returned or thrown (lines 312, 317, 321, 325)
\* takes one turn of the microtask queue, and batchRender one more for each
\* `await renderTemplate` (line 228).
Turns(wk, m) ==
    IF wk.phase = "failed" THEN 0
    ELSE IF IsInstall(m)
    THEN IF Advance(wk.installed, NamesOf(m), 1, EmptyBatchResult).at = 0
         THEN 1 ELSE 0
    ELSE IF m.type = "renderTemplate" THEN 1
    ELSE IF m.type = "batchRender" THEN Len(BatchTemplates(m)) + 1
    ELSE IF m.type = "installPackages" THEN 1
    ELSE 0

\* Turn k of the microtask queue: of the handlers q[i], q[i+1], ..., those
\* that reach their post or their collaborator in this turn do so, in the
\* order of their message events.
RECURSIVE ResumeTurn(_, _, _, _, _)
ResumeTurn(wk, q, fates, k, i) ==
    IF i > Len(q) THEN wk
    ELSE ResumeTurn(IF Turns(wk, q[i]) = k THEN Handle(wk, q[i], fates[i])
                    ELSE wk,
                    q, fates, k, i + 1)

\* The handlers of q, all waiting at `await initPromise`, resume in one job
\* run: turn k, then turn k + 1, until each has posted or is suspended.
RECURSIVE ResumeEarly(_, _, _, _)
ResumeEarly(wk, q, fates, k) ==
    IF \A i \in DOMAIN q : Turns(wk, q[i]) < k THEN wk
    ELSE ResumeEarly(ResumeTurn(wk, q, fates, k, 1), q, fates, k + 1)

\* initPromise settles at the end of BootStep: after the postMessage of its
\* `then` the handlers that wait for it resume.
BootEnd(wk, fates) ==
    IF wk.phase = "loading" THEN wk
    ELSE ResumeEarly([wk EXCEPT !.inbox = <<>>], wk.inbox, fates, 0)

\* A task of the bootstrap.
WorkerBoot(w, ok) ==
    /\ workers[w].alive /\ workers[w].phase = "loading"
    /\ ~MicrotasksPending
    /\ \E fates \in EarlyFates(workers[w].inbox) :
          workers' = [workers EXCEPT
             ![w] = BootEnd(BootStep(workers[w], ok), fates)]
    /\ UNCHANGED <<states, calls, pg, runs, api, dom, env>>

\* The message event of the oldest request that arrived after the bootstrap
\* is dispatched: initPromise has settled, and the handler runs in a task of
\* its own to its reply or to its await of a collaborator.
WorkerHandle(w, fate) ==
    LET wk == workers[w] IN
    /\ wk.alive /\ wk.phase \in {"ready", "failed"}
    /\ wk.inbox # <<>>
    /\ (wk.phase = "ready" /\ IsInstall(Head(wk.inbox)))
          => Len(wk.invoked) < MaxInvoked
    /\ ~MicrotasksPending
    /\ workers' = [workers EXCEPT
          ![w] = Handle([wk EXCEPT !.inbox = Tail(@)], Head(wk.inbox), fate)]
    /\ UNCHANGED <<states, calls, pg, runs, api, dom, env>>

\* The promise of micropip.install settles for suspended handler j: lines
\* 151-152 (installPackage) and 172-179, then the loop again (installPackages).
InstallSettle(wk, j, ok) ==
    LET h     == wk.awaiting[j]
        names == NamesOf(h.m)
        p     == names[h.at]
        inst  == AfterInstall(wk.installed, names, h.at, ok)
        res   == IF ok THEN [h.res EXCEPT !.installed = Append(@, p)]
                 ELSE [h.res EXCEPT !.errors = Append(@, p), !.success = FALSE]
        adv   == Advance(inst, names, h.at + 1, res)
        wk1   == [wk EXCEPT !.installed = inst,
                            !.invoked[h.call].ended =
                                IF ok THEN "ok" ELSE "failed"]
    IN  IF h.m.type = "installPackage" /\ ~ok
        THEN Post([wk1 EXCEPT !.awaiting = RemoveAt(@, j)], ErrorReply(h.m))
        ELSE IF adv.at = 0
        THEN Post([wk1 EXCEPT !.awaiting = RemoveAt(@, j)],
                  InstallReply(h.m, adv.res))
        ELSE [wk1 EXCEPT !.awaiting[j] = [h EXCEPT !.at = adv.at,
                                                   !.res = adv.res,
                                                   !.call = Len(wk.invoked) + 1],
                         !.invoked = Append(@, [name |-> names[adv.at],
                                                ended |-> "pending"])]

InstallEnd(w, j, ok) ==
    /\ workers[w].alive /\ IsInstall(workers[w].awaiting[j].m)
    /\ ~MicrotasksPending
    /\ workers' = [workers EXCEPT ![w] = InstallSettle(workers[w], j, ok)]
    /\ UNCHANGED <<states, calls, pg, runs, api, dom, env>>

\* How a runPython handler ends after pyodide.loadPackagesFromImports (line
\* 254): with a result, with something thrown, or with a result postMessage
\* cannot clone, which throws at line 336.
PythonOutcomes == {"ok", "jsError", "unclonable"}

\* The promise of loadPackagesFromImports settles for suspended handler j,
\* and runPython runs to its end.
PythonEnd(w, j, how) ==
    LET wk == workers[w]
        h  == wk.awaiting[j]
    IN  /\ wk.alive /\ h.m.type = "runPython"
        /\ ~MicrotasksPending
        /\ workers' = [workers EXCEPT ![w] =
              Post([wk EXCEPT !.awaiting = RemoveAt(@, j)],
                   IF how = "ok"
                   THEN ResultReply(h.m, [shape |-> "object", success |-> TRUE])
                   ELSE ErrorReply(h.m))]
        /\ UNCHANGED <<states, calls, pg, runs, api, dom, env>>

(***************************************************************************)
(* Host tasks shared by both front ends.                                   *)
(***************************************************************************)
\* A message of worker w reaches worker.onmessage of its owner state.
HostReceive(w) ==
    /\ workers[w].alive /\ workers[w].out # <<>>
    /\ ~MicrotasksPending
    /\ Commit(OnMessage([Sys EXCEPT !.workers[w].out = Tail(@)],
                        workers[w].owner, Head(workers[w].out)))

\* An error event of worker w: worker.onerror, lines 106-113, runs for each
\* one, whatever the status of the controller.  `errors` counts the events
\* the worker has fired.
RECURSIVE ErrorsFired(_, _)
ErrorsFired(ws, w) ==
    IF w = 0 THEN 0 ELSE ws[w].errors + ErrorsFired(ws, w - 1)

HostWorkerError(w) ==
    /\ workers[w].alive
    /\ ~MicrotasksPending
    /\ ErrorsFired(workers, Len(workers)) < MaxErrors
    /\ Commit(OnWorkerError([Sys EXCEPT !.workers[w].errors = @ + 1],
                            workers[w].owner))

\* The 30 s timer of call c fires and finds the entry (otherwise the callback
\* changes nothing).  Timers of equal delay fire in the order in which they
\* were armed.
TimerDue(c) ==
    /\ calls[c].timer = "armed"
    /\ TimeoutStillPending(states[calls[c].state], calls[c].id)

CallTimeout(c) ==
    /\ TimerDue(c)
    /\ ~MicrotasksPending
    /\ \A b \in 1..(c - 1) : ~TimerDue(b)
    /\ Commit(OnCallTimeout(Sys, c))

(***************************************************************************)
(* createDjango: one instance over one state object (state 1).             *)
(***************************************************************************)
InstInit ==
    /\ Len(workers) < MaxWorkers
    /\ ~InitGuard(states[1])
    /\ Commit(initializeDjango(Sys, 1, env.workerThrows))

RequestData(type, p) ==
    IF type = "installPackage" THEN [packageName |-> p]
    ELSE IF type = "renderTemplate" THEN [template |-> "t", context |-> "c"]
    ELSE [code |-> "x"]

\* The requests of the instance, lines 346-355: renderTemplate,
\* installPackage, and runPython, which saveTemplate, loadTemplate and
\* listTemplates also send (lines 254-284).
InstRequestTypes == {"renderTemplate", "installPackage", "runPython"}

InstRequest(type, p) ==
    /\ Len(calls) < MaxCalls
    /\ SendAllowed(Sys, 1)
    /\ Commit(sendMessage(Sys, 1, type, RequestData(type, p), NoWaiter))

InstDestroy ==
    /\ states[1].worker # 0
    /\ Commit(destroyDjango(Sys, 1))

InitInstance ==
    /\ states = << createInitialState(<<>>, TRUE) >>
    /\ workers = <<>>
    /\ calls = <<>>
    /\ pg = NoInstance
    /\ runs = <<>>
    /\ api = <<>>
    /\ dom = <<>>
    /\ env \in [workerThrows : BOOLEAN]

NextInstance ==
    \/ InstInit
    \/ \E type \in InstRequestTypes :
          \E p \in {"p"} : InstRequest(type, p)
    \/ InstDestroy
    \/ \E w \in DOMAIN workers : \E ok \in BOOLEAN : WorkerBoot(w, ok)
    \/ \E w \in DOMAIN workers :
          /\ workers[w].inbox # <<>>
          /\ \E fate \in Fates(Head(workers[w].inbox)) : WorkerHandle(w, fate)
    \/ \E w \in DOMAIN workers : \E j \in DOMAIN workers[w].awaiting :
          \E ok \in BOOLEAN : InstallEnd(w, j, ok)
    \/ \E w \in DOMAIN workers : \E j \in DOMAIN workers[w].awaiting :
          \E how \in PythonOutcomes : PythonEnd(w, j, how)
    \/ \E w \in DOMAIN workers : HostReceive(w)
    \/ \E c \in DOMAIN calls : CallTimeout(c)

SpecInstance == InitInstance /\ [][NextInstance]_vars


(***************************************************************************)
(* Properties of the request/reply transport, on one createDjango          *)
(* instance.  A timer that is due fires.                                   *)
(***************************************************************************)
SpecInstanceFair ==
    SpecInstance /\ WF_vars(\E c \in DOMAIN calls : CallTimeout(c))

PendingIds(s) == DOMAIN states[s].pendingMessages

TimeoutEntry(id) == [by |-> "timeout", rid |-> id, outcome |-> "reject"]

\* The worker still holds, or has posted and the host has not received,
\* something for request id.
InWorker(w, id) ==
    \/ \E i \in DOMAIN workers[w].inbox : workers[w].inbox[i].id = id
    \/ \E j \in DOMAIN workers[w].awaiting : workers[w].awaiting[j].m.id = id
    \/ \E i \in DOMAIN workers[w].out :
          workers[w].out[i].kind = "reply" /\ workers[w].out[i].id = id

\* C1: a reply carrying id i settles only the promise of the sendMessage call
\* that allocated id i on that state, whatever the order of the replies:
\* every settlement by a reply was made by a reply carrying the id of the
\* call, and no two calls on one state allocated the same id.
C1_ReplySettlesOwnPromise ==
    /\ \A c \in DOMAIN calls : \A k \in DOMAIN calls[c].settled :
          calls[c].settled[k].by = "reply" =>
             calls[c].settled[k].rid = calls[c].id
    /\ \A c, d \in DOMAIN calls :
          (c # d /\ calls[c].state = calls[d].state) => calls[c].id # calls[d].id

\* Two requests are outstanding and the reply to the later one arrives first.
C1_Witness ==
    \E c, d \in DOMAIN calls :
       /\ c < d /\ calls[c].state = calls[d].state
       /\ calls[c].settled = <<>> /\ calls[c].id \in PendingIds(calls[c].state)
       /\ Len(calls[d].settled) = 1 /\ calls[d].settled[1].by = "reply"

\* A reply for the request of call c has reached the host while the request
\* was pending.
Replied(c) == Len(calls[c].settled) = 1 /\ calls[c].settled[1].by = "reply"

\* The timer of call c has rejected its promise and removed its entry.
TimedOut(c) ==
    /\ calls[c].timer = "fired"
    /\ calls[c].settled = << TimeoutEntry(calls[c].id) >>
    /\ calls[c].id \notin PendingIds(calls[c].state)

\* C2: a request whose reply never arrives is rejected exactly once by its
\* timer: the call adds one entry to pendingMessages, the callback of the
\* timer rejects a promise that nothing has settled and removes exactly that
\* entry, so that the map is back at its size before the call, and every
\* request is settled by its reply or rejected by its timer.
C2_TimeoutRejectsOnce ==
    /\ [][\A c \in DOMAIN calls' :
            LET s == calls'[c].state
                id == calls'[c].id
            IN  /\ c \notin DOMAIN calls =>
                      /\ id \notin PendingIds(s)
                      /\ DOMAIN states'[s].pendingMessages = PendingIds(s) \cup {id}
                /\ (c \in DOMAIN calls /\ calls[c].timer = "armed"
                       /\ calls'[c].timer = "fired") =>
                      /\ calls[c].settled = <<>>
                      /\ calls'[c].settled = << TimeoutEntry(id) >>
                      /\ id \in PendingIds(s)
                      /\ DOMAIN states'[s].pendingMessages = PendingIds(s) \ {id}]_vars
    /\ [](\A c \in DOMAIN calls : calls[c].timer = "fired" => TimedOut(c))
    /\ \A c \in 1..MaxCalls :
          (c \in DOMAIN calls) ~>
             (c \in DOMAIN calls /\ (Replied(c) \/ TimedOut(c)))

\* The head of worker w's posted messages is the reply to a request of its
\* owner that has already timed out.
LateReply(w) ==
    /\ workers[w].alive /\ workers[w].out # <<>>
    /\ Head(workers[w].out).kind = "reply"
    /\ \E c \in DOMAIN calls :
          /\ calls[c].state = workers[w].owner
          /\ calls[c].id = Head(workers[w].out).id
          /\ calls[c].timer = "fired"

\* C3: a reply that arrives after its request has timed out is dropped: the
\* step that delivers it settles no promise and changes neither
\* pendingMessages nor any other field of the controller.
C3_LateReplyDropped ==
    [][\A w \in DOMAIN workers :
          (LateReply(w) /\ workers'[w].alive
             /\ workers'[w].out = Tail(workers[w].out)) =>
          (states' = states /\ calls' = calls /\ pg' = pg /\ runs' = runs
             /\ api' = api /\ dom' = dom)]_vars

\* A request timed out, the worker answered it later, and the host has
\* received that answer.
C3_Witness ==
    \E c \in DOMAIN calls :
       LET s == calls[c].state IN
       /\ calls[c].timer = "fired"
       /\ Len(workers) = 1 /\ workers[1].alive /\ states[s].worker = 1
       /\ ~InWorker(1, calls[c].id)

\* C4: every request promise has been settled at most once, and the id of a
\* settled request is not a key of pendingMessages.
C4_SettledAtMostOnce ==
    \A c \in DOMAIN calls :
       /\ Len(calls[c].settled) <= 1
       /\ calls[c].settled # <<>> => calls[c].id \notin PendingIds(calls[c].state)

\* One request was settled by its reply, so that its timer is left to fire
\* for nothing, and another by its timer, with its reply received afterwards.
C4_Witness ==
    \E c, d \in DOMAIN calls :
       /\ Len(calls[c].settled) = 1 /\ calls[c].settled[1].by = "reply"
       /\ calls[c].timer = "armed"
       /\ calls[d].settled = << TimeoutEntry(calls[d].id) >>
       /\ calls[d].state = calls[c].state
       /\ Len(workers) = 1 /\ workers[1].alive
       /\ states[calls[d].state].worker = 1
       /\ ~InWorker(1, calls[d].id)

\* C5: every promise returned by sendMessage is eventually settled, also
\* when destroy() is called or the worker is terminated while the request is
\* outstanding.
C5_EveryRequestSettles ==
    \A c \in 1..MaxCalls :
       (c \in DOMAIN calls) ~> (c \in DOMAIN calls /\ calls[c].settled # <<>>)


(***************************************************************************)
(* The DjangoPlayground front end.                                         *)
(***************************************************************************)
\* The elements the scan looks at: `tpl` is whether the element carries
\* data-django-template, `packages` is the list in data-django-packages,
\* `valid` is whether its attributes parse as JSON, `html` is the innerHTML.
Plain == [tpl |-> TRUE, packages |-> <<>>, valid |-> TRUE, html |-> Template]
WithPackage == [tpl |-> TRUE, packages |-> <<"p">>, valid |-> TRUE, html |-> Template]
WithTwoPackages ==
    [tpl |-> TRUE, packages |-> <<"q", "p">>, valid |-> TRUE, html |-> Template]
Invalid == [tpl |-> TRUE, packages |-> <<>>, valid |-> FALSE, html |-> Template]
InvalidWithPackage ==
    [tpl |-> TRUE, packages |-> <<"p">>, valid |-> FALSE, html |-> Template]
\* An element with data-django-packages and without data-django-template.
Standalone == [tpl |-> FALSE, packages |-> <<"z">>, valid |-> TRUE, html |-> Template]

\* The options of init(): `onReady` and `onError` are whether the caller
\* supplied that callback.
WithCallbacks(packages, autoRender) ==
    [packages |-> packages, autoRender |-> autoRender, onReady |-> TRUE,
     onError |-> TRUE]

CallbackOptionSets ==
    { WithCallbacks(<<>>, TRUE),
      WithCallbacks(<<>>, FALSE),
      WithCallbacks(<<"q">>, TRUE) }

InitOptionSets == CallbackOptionSets \cup {DefaultOptions}

\* Whether a new API call would start an initialization.
WouldStart == ~pg.initialized /\ pg.initPromise = 0

CanCall == Len(api) < MaxApi /\ (WouldStart => Len(workers) < MaxWorkers)

ApiInit(options) ==
    /\ CanCall
    /\ Commit(PlaygroundInit(Sys, options, env.workerThrows))

ApiRender(packages) ==
    /\ CanCall
    /\ Commit(PlaygroundRender(Sys, packages, env.workerThrows))

ApiRenderDOM ==
    /\ CanCall
    /\ Commit(PlaygroundRenderDOM(Sys, env.workerThrows))

\* cleanup() on an instance nothing was ever called on leaves an instance
\* like it, so it is not counted as another instance.
ApiCleanup ==
    /\ pg # [NoInstance EXCEPT !.gen = pg.gen]
    /\ Commit(destroy(Sys))

\* The task that called the API ends: the queued continuations run.
Microtasks ==
    /\ MicrotasksPending
    /\ Commit(Drain(Sys, 1))

\* The timer of waitForReady of run r fires.
WaitTimeout(r) ==
    /\ runs[r].waitTimer = "armed"
    /\ ~MicrotasksPending
    /\ Commit(OnWaitTimeout(Sys, r))

InitPlayground ==
    /\ states = <<>>
    /\ workers = <<>>
    /\ calls = <<>>
    /\ pg = NoInstance
    /\ runs = <<>>
    /\ api = <<>>
    /\ dom = << Plain >>
    /\ env \in [workerThrows : BOOLEAN]

\* init() is called with callbacks here; render() initializes without any.
NextPlayground ==
    \/ \E options \in CallbackOptionSets : ApiInit(options)
    \/ ApiRender(<<>>)
    \/ ApiCleanup
    \/ Microtasks
    \/ \E w \in DOMAIN workers : \E ok \in BOOLEAN : WorkerBoot(w, ok)
    \/ \E w \in DOMAIN workers :
          /\ workers[w].inbox # <<>>
          /\ \E fate \in Fates(Head(workers[w].inbox)) : WorkerHandle(w, fate)
    \/ \E w \in DOMAIN workers : HostReceive(w)
    \/ \E w \in DOMAIN workers : HostWorkerError(w)
    \/ \E c \in DOMAIN calls : CallTimeout(c)
    \/ \E r \in DOMAIN runs : WaitTimeout(r)

SpecPlayground == InitPlayground /\ [][NextPlayground]_vars

\* The life cycle alone: init() and cleanup() calls.
NextInit ==
    \/ \E options \in InitOptionSets : ApiInit(options)
    \/ ApiCleanup
    \/ Microtasks
    \/ \E w \in DOMAIN workers : \E ok \in BOOLEAN : WorkerBoot(w, ok)
    \/ \E w \in DOMAIN workers :
          /\ workers[w].inbox # <<>>
          /\ \E fate \in Fates(Head(workers[w].inbox)) : WorkerHandle(w, fate)
    \/ \E w \in DOMAIN workers : HostReceive(w)
    \/ \E w \in DOMAIN workers : HostWorkerError(w)
    \/ \E c \in DOMAIN calls : CallTimeout(c)
    \/ \E r \in DOMAIN runs : WaitTimeout(r)

SpecInit == InitPlayground /\ [][NextInit]_vars

(***************************************************************************)
(* The DOM pass: documents of two elements, a worker that boots, the calls  *)
(* that go through the document, and page scripts that declare packages.   *)
(***************************************************************************)
Documents ==
    { << Plain, Plain >>, << Invalid, Plain >>, << WithPackage, Plain >>,
      << WithPackage, WithTwoPackages >>, << InvalidWithPackage, Plain >>,
      << Standalone, Plain >> }

\* A script of the page sets data-django-packages of element i to the list
\* `value`; the scans read the attribute of whatever element carries it
\* (getAttribute, lines 587 and 615).
DeclaredLists == { <<"p">> }

DomDeclare(i, value) ==
    /\ ~MicrotasksPending
    /\ dom' = [dom EXCEPT ![i].packages = value]
    /\ UNCHANGED <<states, workers, calls, pg, runs, api, env>>

InitDom ==
    /\ states = <<>>
    /\ workers = <<>>
    /\ calls = <<>>
    /\ pg = NoInstance
    /\ runs = <<>>
    /\ api = <<>>
    /\ dom \in Documents
    /\ env = [workerThrows |-> FALSE]

NextDom ==
    \/ \E options \in InitOptionSets : ApiInit(options)
    \/ (pg.initialized /\ ApiRenderDOM)
    \/ \E i \in DOMAIN dom : \E value \in DeclaredLists : DomDeclare(i, value)
    \/ Microtasks
    \/ \E w \in DOMAIN workers : WorkerBoot(w, TRUE)
    \/ \E w \in DOMAIN workers :
          /\ workers[w].inbox # <<>>
          /\ \E fate \in Fates(Head(workers[w].inbox)) : WorkerHandle(w, fate)
    \/ \E w \in DOMAIN workers : HostReceive(w)
    \/ \E c \in DOMAIN calls : CallTimeout(c)

SpecDom == InitDom /\ [][NextDom]_vars


(***************************************************************************)
(* Properties of the singleton's life cycle.  Timers that are due fire and *)
(* queued continuations run.                                               *)
(***************************************************************************)
\* The progress properties are checked for init() calls that name a package
\* and render the document, the longest initialization there is, and with
\* the error events of a worker that come while its controller is loading.
FullOptions == WithCallbacks(<<"q">>, TRUE)

NextLife ==
    \/ ApiInit(FullOptions)
    \/ ApiCleanup
    \/ Microtasks
    \/ \E w \in DOMAIN workers : \E ok \in BOOLEAN : WorkerBoot(w, ok)
    \/ \E w \in DOMAIN workers :
          /\ workers[w].inbox # <<>>
          /\ \E fate \in Fates(Head(workers[w].inbox)) : WorkerHandle(w, fate)
    \/ \E w \in DOMAIN workers : HostReceive(w)
    \/ \E w \in DOMAIN workers :
          states[workers[w].owner].loading /\ HostWorkerError(w)
    \/ \E c \in DOMAIN calls : CallTimeout(c)
    \/ \E r \in DOMAIN runs : WaitTimeout(r)

SpecInitFair ==
    InitPlayground /\ [][NextLife]_vars
       /\ WF_vars(Microtasks)
       /\ WF_vars(\E c \in DOMAIN calls : CallTimeout(c))
       /\ WF_vars(\E r \in DOMAIN runs : WaitTimeout(r))

\* The same, with init() calls that name no package and render nothing as
\* well, the initialization that succeeds.
NextLifeAny ==
    \/ \E options \in {FullOptions, WithCallbacks(<<>>, FALSE)} :
          ApiInit(options)
    \/ ApiCleanup
    \/ Microtasks
    \/ \E w \in DOMAIN workers : \E ok \in BOOLEAN : WorkerBoot(w, ok)
    \/ \E w \in DOMAIN workers :
          /\ workers[w].inbox # <<>>
          /\ \E fate \in Fates(Head(workers[w].inbox)) : WorkerHandle(w, fate)
    \/ \E w \in DOMAIN workers : HostReceive(w)
    \/ \E w \in DOMAIN workers :
          states[workers[w].owner].loading /\ HostWorkerError(w)
    \/ \E c \in DOMAIN calls : CallTimeout(c)
    \/ \E r \in DOMAIN runs : WaitTimeout(r)

SpecLifeFair ==
    InitPlayground /\ [][NextLifeAny]_vars
       /\ WF_vars(Microtasks)
       /\ WF_vars(\E c \in DOMAIN calls : CallTimeout(c))
       /\ WF_vars(\E r \in DOMAIN runs : WaitTimeout(r))

WorkersOf(s) == {w \in DOMAIN workers : workers[w].owner = s}

InitCalls == {a \in DOMAIN api : api[a].kind = "init"}

\* The ready message of the worker of state s has reached the host.
ReadyReceived(s) ==
    /\ states[s].ready /\ states[s].worker # 0
    /\ workers[states[s].worker].phase = "ready"
    /\ \A i \in DOMAIN workers[states[s].worker].out :
          workers[states[s].worker].out[i].kind # "ready"

\* The workers `new Worker` has made for one initialization: one, or none
\* when the constructor threw.
WorkersMade == IF env.workerThrows THEN 0 ELSE 1

\* C6: an init() made while an initialization of the instance is in flight
\* joins it: it starts no initialization of its own, the one initialization
\* has called `new Worker` once (its state has exactly one worker, none when
\* the constructor threw), and all init() callers of that initialization
\* have the same outcome.
C6_ConcurrentInitShared ==
    \A b \in InitCalls :
       api[b].inflight # 0 =>
          LET r == api[b].inflight IN
          /\ api[b].run = r
          /\ \A q \in DOMAIN runs : runs[q].by # b
          /\ Cardinality(WorkersOf(runs[r].state)) = WorkersMade
          /\ \A a \in InitCalls : api[a].run = r => api[a].outcome = api[b].outcome

\* Two init() calls shared one initialization and both have settled.
C6_Witness ==
    \E a, b \in InitCalls :
       /\ a < b /\ api[b].inflight # 0 /\ api[a].run = api[b].inflight
       /\ runs[api[a].run].by = a
       /\ api[a].outcome # "pending" /\ api[b].outcome # "pending"

\* C7: init(options) on a playground that is ready is a no-op: the step
\* creates no worker, sends no request, changes no state of the controller,
\* and the call is resolved.
C7_InitWhenReadyNoOp ==
    [][(IsReady(Sys) /\ Len(api') = Len(api) + 1
          /\ api'[Len(api')].kind = "init") =>
       /\ states' = states /\ workers' = workers /\ calls' = calls
       /\ pg' = pg /\ runs' = runs /\ dom' = dom
       /\ SubSeq(api', 1, Len(api)) = api
       /\ api'[Len(api')].outcome = "resolved"]_vars

\* init({packages: ["q"]}) was called on a ready playground: it is resolved,
\* no install request was sent and the worker has not installed q.
C7_Witness ==
    \E a \in InitCalls :
       /\ api[a].wasReady /\ api[a].packages = <<"q">>
       /\ api[a].outcome = "resolved"
       /\ IsReady(Sys) /\ api[a].gen = pg.gen
       /\ "q" \notin workers[states[pg.state].worker].installed
       /\ \A c \in DOMAIN calls : calls[c].type # "installPackages"

RenderJoined == {a \in DOMAIN api : api[a].kind = "render" /\ api[a].inflight # 0}

\* C8: a render() made while an initialization is in flight awaits that
\* initialization: it starts none of its own (so no worker), and its request
\* is sent in a state where that initialization has resolved and the ready
\* message of its worker has been received.
C8_RenderAwaitsInit ==
    /\ [](\A a \in RenderJoined :
            /\ api[a].run = api[a].inflight
            /\ \A q \in DOMAIN runs : runs[q].by # a
            /\ Cardinality(WorkersOf(runs[api[a].inflight].state)) = WorkersMade)
    /\ [][\A c \in DOMAIN calls' :
            (c \notin DOMAIN calls /\ calls'[c].waiter.kind = "api"
               /\ calls'[c].waiter.i \in RenderJoined) =>
               LET r == api[calls'[c].waiter.i].inflight IN
               /\ runs'[r].outcome = "resolved"
               /\ calls'[c].state = runs'[r].state
               /\ states'[runs'[r].state].ready
               /\ pg'.initialized]_vars

\* A render() that came during an initialization has sent its request.
C8_Witness ==
    \E a \in RenderJoined : \E c \in DOMAIN calls :
       /\ calls[c].waiter = [kind |-> "api", i |-> a]
       /\ calls[c].type = "renderTemplate"
       /\ runs[api[a].inflight].by # a

\* Every element the scan of run r discovered has its outcome.
PassFinished(r) ==
    /\ runs[r].passStarted
    /\ Len(runs[r].pass.elems) = Len(scanDOMForTemplates(dom).elements)
    /\ Len(runs[r].pass.outcomes) = Len(runs[r].pass.elems)
    /\ \A k \in DOMAIN runs[r].pass.outcomes :
          runs[r].pass.outcomes[k] \in {"rendered", "error"}

\* C9: whenever isReady() is true, the ready message of the worker has been
\* received, the initialization has resolved and, with autoRender, its DOM
\* pass has gone through every discovered element.
C9_ReadyMeansInitDone ==
    IsReady(Sys) =>
       /\ ReadyReceived(pg.state)
       /\ pg.initPromise # 0
       /\ runs[pg.initPromise].outcome = "resolved"
       /\ runs[pg.initPromise].state = pg.state
       /\ pg.config.autoRender => PassFinished(pg.initPromise)

\* isReady() is true after an initial pass over two elements, one rendered
\* and one in the error state.
C9_Witness ==
    /\ IsReady(Sys) /\ pg.config.autoRender
    /\ Len(runs[pg.initPromise].pass.outcomes) = 2
    /\ runs[pg.initPromise].pass.outcomes[1] # runs[pg.initPromise].pass.outcomes[2]

\* The worker of the initialization that init() call a awaits has posted its
\* ready message.
WorkerSentReady(a) ==
    /\ api[a].run # 0
    /\ \E w \in WorkersOf(runs[api[a].run].state) : workers[w].phase = "ready"

\* C10: an init() whose worker cannot be created, fails its bootstrap or
\* never sends ready is rejected, and isReady() stays false: an init()
\* resolves only in a step after which the ready message of its worker has
\* been received and isReady() is true, isReady() is true only after the
\* ready message, a failed `new Worker` rejects before the task that called
\* init() has ended, and every init() is rejected unless its worker sends
\* ready.
C10_FailedInitRejects ==
    /\ [][\A a \in InitCalls :
            (api[a].outcome = "pending" /\ api'[a].outcome = "resolved") =>
               (IsReady(Sys') /\ ReadyReceived(pg.state)')]_vars
    /\ [](\A a \in InitCalls :
            (env.workerThrows /\ ~api[a].wasReady /\ ~MicrotasksPending) =>
               api[a].outcome = "rejected")
    /\ [](IsReady(Sys) => \E r \in DOMAIN runs :
            /\ runs[r].gen = pg.gen /\ runs[r].outcome = "resolved"
            /\ ReadyReceived(runs[r].state))
    /\ \A a \in 1..MaxApi :
          (a \in InitCalls /\ api[a].outcome = "pending") ~>
             (a \in InitCalls /\
                (api[a].outcome = "rejected" \/ WorkerSentReady(a)))


(***************************************************************************)
(* After a failed initialization, and cleanup().                           *)
(***************************************************************************)
\* The runs made on the current instance, and the workers they created.
RunsOfInstance == {r \in DOMAIN runs : runs[r].gen = pg.gen}

WorkersOfInstance ==
    {w \in DOMAIN workers : \E r \in RunsOfInstance : workers[w].owner = runs[r].state}

AliveWorkers == {w \in DOMAIN workers : workers[w].alive}

\* An init() of the current instance has been rejected.
InitHasRejected ==
    \E a \in InitCalls : api[a].gen = pg.gen /\ api[a].outcome = "rejected"

\* C11: after init() has rejected and until cleanup(), an init() or render()
\* call starts no initialization (no run, no worker, no request) and is
\* rejected in the step of the call.
C11_ErrorStateUntilCleanup ==
    [][(InitHasRejected /\ Len(api') = Len(api) + 1) =>
          /\ Len(runs') = Len(runs)
          /\ Len(workers') = Len(workers)
          /\ Len(calls') = Len(calls)
          /\ api'[Len(api')].outcome = "rejected"]_vars

\* C12: the step of cleanup() leaves no worker of the released instance
\* alive, its state without pending entries and isReady() false; and an
\* init() on the instance after cleanup() makes a new state and, unless
\* `new Worker` throws, a new worker.
C12_CleanupReleasesAll ==
    [][/\ pg'.gen # pg.gen =>
             /\ \A w \in WorkersOfInstance : ~workers'[w].alive
             /\ \A r \in RunsOfInstance :
                   states'[runs[r].state].pendingMessages = EmptyMap
             /\ ~IsReady(Sys')
       /\ (pg = [NoInstance EXCEPT !.gen = pg.gen] /\ Len(api') = Len(api) + 1
             /\ api'[Len(api')].kind = "init") =>
             /\ Len(runs') = Len(runs) + 1
             /\ Len(states') = Len(states) + 1
             /\ ~env.workerThrows => Len(workers') = Len(workers) + 1]_vars

\* C13: at most one worker created by the singleton is alive.
C13_AtMostOneWorkerAlive == Cardinality(AliveWorkers) <= 1

\* Two stores that differ at most in the count of released instances.
SameButGen(A, B) == [A EXCEPT !.pg.gen = 0] = [B EXCEPT !.pg.gen = 0]

\* Store T, reached by cleanup() from store S, has no singleton state, and
\* the state S had is without worker, without pending entries and not ready.
Released(S, T) ==
    /\ [T.pg EXCEPT !.gen = 0] = NoInstance
    /\ ~IsReady(T)
    /\ S.pg.state # 0 =>
          /\ T.states[S.pg.state].worker = 0
          /\ T.states[S.pg.state].pendingMessages = EmptyMap
          /\ ~T.states[S.pg.state].ready
          /\ \A w \in DOMAIN T.workers :
                T.workers[w].owner = S.pg.state => ~T.workers[w].alive

\* C14: from every reachable state, cleanup() followed by cleanup() leaves
\* the controller as the first cleanup() left it (no worker, no pending
\* entries, not ready, no singleton state); the second call finds no state
\* to destroy and changes nothing.
C14_CleanupIdempotent ==
    LET A == destroy(Sys)
        B == destroy(A)
    IN  /\ Released(Sys, A)
        /\ Released(A, B)
        /\ SameButGen(A, B)

\* cleanup() has just released a ready playground that had a request
\* outstanding.
C14_Witness ==
    /\ pg = [NoInstance EXCEPT !.gen = pg.gen] /\ pg.gen > 0
    /\ \E c \in DOMAIN calls :
          /\ calls[c].cleared
          /\ states[calls[c].state].worker = 0
          /\ states[calls[c].state].pendingMessages = EmptyMap
    /\ \E r \in DOMAIN runs :
          runs[r].gen = pg.gen - 1 /\ runs[r].outcome = "resolved"

(***************************************************************************)
(* The ready status, on the life cycle (worker error events at any time).  *)
(***************************************************************************)
\* C15: once isReady() is true it stays true until cleanup(): a step that
\* takes the controller out of the ready status is a cleanup() step, so no
\* worker message, worker error event, request timeout or failed render
\* does it.
C15_ReadyUntilCleanup ==
    [][(IsReady(Sys) /\ ~IsReady(Sys')) => pg'.gen = pg.gen + 1]_vars

\* isReady() is true after a worker error event and after a render() of this
\* instance was rejected by the timer of its request.
C15_Witness ==
    /\ IsReady(Sys)
    /\ states[pg.state].error
    /\ \E a \in DOMAIN api : \E c \in DOMAIN calls :
          /\ api[a].kind = "render" /\ api[a].gen = pg.gen
          /\ api[a].outcome = "rejected"
          /\ calls[c].waiter = [kind |-> "api", i |-> a]
          /\ calls[c].timer = "fired"

(***************************************************************************)
(* Properties of the DOM render pass.                                      *)
(***************************************************************************)
\* The passes: of an initialization with autoRender, or of a renderDOM().
PassOwners ==
    {[kind |-> "run", i |-> r] : r \in {q \in DOMAIN runs : runs[q].passStarted}}
       \cup {[kind |-> "api", i |-> a] :
                a \in {b \in DOMAIN api : api[b].kind = "renderDOM"
                                            /\ api[b].pc \notin {"start", "called", "awaitInit"}}}

Owner(o) == IF o.kind = "run" THEN runs[o.i] ELSE api[o.i]

\* The request of owner o that is outstanding: its entry is in the map.
Outstanding(o) ==
    {c \in DOMAIN calls :
        /\ calls[c].waiter = o /\ calls[c].settled = <<>>
        /\ calls[c].id \in PendingIds(calls[c].state)}

\* The pass of o has left renderDOMTemplates.
PassOver(o) == Owner(o).pc = "done"

\* C16: a failure of one element's install or render request does not stop
\* the pass and does not leave its loop: every pass either has an outcome
\* for every discovered element and has resolved its caller (renderDOM() or
\* the init() with autoRender), or it has an outcome for each element
\* before the current one and awaits the request of the current one.
C16_ElementFailureIsolated ==
    \A o \in PassOwners :
       LET pass == Owner(o).pass IN
       /\ \A k \in DOMAIN pass.outcomes : pass.outcomes[k] \in {"rendered", "error"}
       /\ IF PassOver(o)
          THEN /\ Len(pass.outcomes) = Len(pass.elems)
               /\ Owner(o).outcome = "resolved"
          ELSE /\ Owner(o).outcome = "pending"
               /\ pass.k = Len(pass.outcomes) + 1
               /\ pass.k <= Len(pass.elems)
               /\ Owner(o).pc \in {"elemInstall", "elemRender"}
               /\ Cardinality(Outstanding(o)) = 1

\* A renderDOM() has resolved after a pass whose first element failed at its
\* install request and whose second element was rendered, and an init() with
\* autoRender has resolved after a pass whose first element failed.
C16_Witness ==
    /\ \E a \in DOMAIN api :
          /\ api[a].kind = "renderDOM" /\ api[a].outcome = "resolved"
          /\ api[a].pass.outcomes = << "error", "rendered" >>
          /\ api[a].pass.elems[1].packages # <<>>
    /\ \E r \in DOMAIN runs :
          /\ runs[r].outcome = "resolved"
          /\ Len(runs[r].pass.outcomes) = 2
          /\ runs[r].pass.outcomes[1] = "error"

\* The same notions in a given store.
PassOwnersIn(S) ==
    {[kind |-> "run", i |-> r] : r \in {q \in DOMAIN S.runs : S.runs[q].passStarted}}
       \cup {[kind |-> "api", i |-> a] :
                a \in {b \in DOMAIN S.api : S.api[b].kind = "renderDOM"
                                              /\ S.api[b].pc \notin {"start", "called", "awaitInit"}}}

PassOverIn(S, o) == GetOwner(S, o).pc = "done"

\* The outcomes the pass of o has recorded in store S.
OutcomesIn(S, o) ==
    IF o \in PassOwnersIn(S) THEN GetOwner(S, o).pass.outcomes ELSE <<>>

\* A pass other than o's is at element el in store S and shows its loading
\* state there.
OtherPassAt(S, o, el) ==
    \E p \in PassOwnersIn(S) \ {o} :
       /\ ~PassOverIn(S, p)
       /\ GetOwner(S, p).pass.elems[GetOwner(S, p).pass.k].el = el

\* C17: the step in which a pass records the outcome of an element leaves
\* that element with the rendered output if its render succeeded and with
\* the error indicator if its install or render failed; and the step in
\* which a pass completes leaves it with exactly one outcome for every
\* discovered element and none of these elements in the loading state
\* (unless another pass is just then rendering that element).
C17_EveryElementHasOutcome ==
    [][\A o \in PassOwnersIn(Sys') :
          LET pass == GetOwner(Sys', o).pass
              n    == Len(OutcomesIn(Sys, o))
          IN  /\ \A k \in (n + 1)..Len(pass.outcomes) :
                    LET e == pass.elems[k] IN
                    \/ OtherPassAt(Sys', o, e.el)
                    \/ /\ pass.outcomes[k] = "rendered"
                       /\ dom'[e.el].html = Rendered(e.template)
                    \/ /\ pass.outcomes[k] = "error"
                       /\ dom'[e.el].html = ErrorBox
              /\ (PassOverIn(Sys', o)
                    /\ ~(o \in PassOwnersIn(Sys) /\ PassOverIn(Sys, o))) =>
                    /\ Len(pass.outcomes) = Len(pass.elems)
                    /\ \A k \in DOMAIN pass.elems :
                          \/ dom'[pass.elems[k].el].html.kind \in {"R", "E"}
                          \/ OtherPassAt(Sys', o, pass.elems[k].el)]_vars

\* The pass of an init() has completed: the request of its first element
\* timed out and the element shows the error indicator, the second element
\* shows its rendered output.
C17_Witness ==
    \E r \in DOMAIN runs : \E c \in DOMAIN calls :
       /\ runs[r].outcome = "resolved"
       /\ runs[r].pass.outcomes = << "error", "rendered" >>
       /\ calls[c].waiter = [kind |-> "run", i |-> r]
       /\ calls[c].timer = "fired"
       /\ dom[1].html = ErrorBox
       /\ dom[2].html = Rendered(Template)

\* Every initialization of instance gen was given an onError callback.
OnErrorSupplied(gen) ==
    /\ \E r \in DOMAIN runs : runs[r].gen = gen
    /\ \A r \in DOMAIN runs : runs[r].gen = gen => runs[r].config.onError

\* C18: for every element whose render failed during a pass, the onError
\* callback the caller supplied to the instance has been invoked with that
\* element.
C18_ElementErrorsReported ==
    \A o \in PassOwners :
       \A k \in DOMAIN Owner(o).pass.outcomes :
          (Owner(o).pass.outcomes[k] = "error" /\ OnErrorSupplied(Owner(o).gen)) =>
             \E r \in DOMAIN runs : \E j \in DOMAIN runs[r].onError :
                /\ runs[r].gen = Owner(o).gen
                /\ runs[r].onError[j] = Owner(o).pass.elems[k].el

(***************************************************************************)
(* Properties of the package installation at init.                         *)
(***************************************************************************)
Range(list) == {list[i] : i \in DOMAIN list}

NoDuplicates(list) == \A i, j \in DOMAIN list : list[i] = list[j] => i = j

\* The names in the package lists declared on the elements of document d.
DeclaredPackages(d) == UNION {Range(d[i].packages) : i \in DOMAIN d}

\* The requests sent by the initialization r, in the order of sending.
CallsOfRun(r) == {c \in DOMAIN calls : calls[c].waiter = [kind |-> "run", i |-> r]}

\* C19: the initialization computes the union of options.packages and of
\* all package lists declared on DOM elements, each name once; when it is
\* non-empty the first request of the initialization is the one batch-install
\* request and carries it, so that it precedes every render request; when it
\* is empty no install request is sent before the DOM pass.
C19_BatchInstallIsUnion ==
    /\ [][Len(runs') = Len(runs) + 1 =>
            LET run == runs'[Len(runs')] IN
            /\ Range(run.unique) = Range(run.config.packages) \cup DeclaredPackages(dom)
            /\ NoDuplicates(run.unique)]_vars
    /\ [][\A c \in DOMAIN calls' :
            (c \notin DOMAIN calls /\ calls'[c].waiter.kind = "run") =>
               LET r == calls'[c].waiter.i IN
               IF calls'[c].type = "installPackages" /\ ~runs'[r].passStarted
               THEN /\ runs'[r].unique # <<>>
                    /\ calls'[c].data = [packages |-> runs'[r].unique]
                    /\ CallsOfRun(r) = {}
               ELSE runs'[r].unique # <<>> => CallsOfRun(r) # {}]_vars
    /\ [](\A r \in DOMAIN runs :
            (runs[r].unique # <<>> /\ runs[r].pc \notin {"init", "initThrew", "waitReady"}) =>
               \E c \in CallsOfRun(r) :
                  /\ \A b \in CallsOfRun(r) : c <= b
                  /\ calls[c].type = "installPackages"
                  /\ calls[c].data = [packages |-> runs[r].unique])

\* The elements of the document that declare package name p.
Declaring(p) == {i \in DOMAIN dom : p \in Range(dom[i].packages)}

\* The install requests of initialization r that name package p.
InstallsNaming(r, p) ==
    {c \in CallsOfRun(r) :
        calls[c].type = "installPackages" /\ p \in Range(calls[c].data.packages)}

\* C20: during one init() with autoRender, for a package name that two or
\* more DOM elements declare, at most one install request naming it has been
\* sent, and exactly one once the initialization is past its install step
\* with that name in its package list.
C20_OneInstallPerSharedPackage ==
    \A r \in DOMAIN runs : \A p \in {"p", "q"} :
       (runs[r].config.autoRender /\ Cardinality(Declaring(p)) >= 2) =>
          /\ Cardinality(InstallsNaming(r, p)) <= 1
          /\ (p \in Range(runs[r].unique)
                /\ runs[r].pc \notin {"init", "initThrew", "waitReady"}) =>
                Cardinality(InstallsNaming(r, p)) = 1

(***************************************************************************)
(* Properties of the batch installation, host and worker together.         *)
(***************************************************************************)
\* The batch-install calls of the host whose reply worker w has posted.
BatchAnswered(w) ==
    {x \in (DOMAIN workers[w].out) \X (DOMAIN calls) :
        /\ workers[w].out[x[1]].kind = "reply"
        /\ calls[x[2]].state = workers[w].owner
        /\ calls[x[2]].id = workers[w].out[x[1]].id
        /\ calls[x[2]].type = "installPackages"}

\* C21: the reply to a batch-install request of the host carries a result
\* that classifies each name the host passed exactly once as installed,
\* skipped or failed, and every name reported as installed is in the
\* worker's installed set.
C21_BatchInstallClassifies ==
    \A w \in DOMAIN workers : \A x \in BatchAnswered(w) :
       LET reply == workers[w].out[x[1]]
           names == calls[x[2]].data.packages
       IN  /\ ~reply.error
           /\ Range(reply.result.installed) \cup Range(reply.result.skipped)
                 \cup Range(reply.result.errors) = Range(names)
           /\ Len(reply.result.installed) + Len(reply.result.skipped)
                 + Len(reply.result.errors) = Len(names)
           /\ Range(reply.result.installed) \subseteq workers[w].installed

\* The batch-install request of initialization r, while the worker of its
\* state holds it: <<worker, position in the inbox>>.
BatchHeld(r) ==
    {x \in (DOMAIN workers) \X (1..MaxCalls + MaxApi + 2) :
        /\ runs[r].pc = "install"
        /\ workers[x[1]].alive /\ workers[x[1]].owner = runs[r].state
        /\ x[2] \in DOMAIN workers[x[1]].inbox
        /\ workers[x[1]].inbox[x[2]].type = "installPackages"
        /\ \E c \in CallsOfRun(r) :
              /\ calls[c].id = workers[x[1]].inbox[x[2]].id
              /\ calls[c].id \in PendingIds(calls[c].state)}

\* The sets of requested packages of which some install and some fail.
PartialFailures(m) ==
    {bad \in SUBSET RequestedNames(m) : bad # {} /\ bad # RequestedNames(m)}

\* The handler of request m, suspended as handler j, runs to its reply when
\* micropip.install fails on exactly the names in bad.
RECURSIVE Finish(_, _, _, _)
Finish(wk, j, m, bad) ==
    IF j \notin DOMAIN wk.awaiting THEN wk
    ELSE Finish(InstallSettle(wk, j, NamesOf(m)[wk.awaiting[j].at] \notin bad),
                j, m, bad)

\* The store after worker w has handled request m, the installer failing on
\* the names in bad, and the host has received the reply.
AfterReply(w, m, bad) ==
    LET wk0 == workers[w]
        wk1 == Handle(wk0, m, [run |-> "ok"])
        wk2 == IF Len(wk1.awaiting) > Len(wk0.awaiting)
               THEN Finish(wk1, Len(wk1.awaiting), m, bad) ELSE wk1
    IN  OnMessage(Sys, wk0.owner, wk2.out[Len(wk2.out)])

\* C22: when the worker handles the batch-install request of an init() and
\* some packages fail while others install, the reply does not reject the
\* init(): onError is called if the caller supplied it, the DOM pass starts
\* if autoRender is set, and otherwise the init() has resolved with the
\* controller ready.
C22_PartialInstallDoesNotReject ==
    \A r \in DOMAIN runs : \A x \in BatchHeld(r) :
       LET m == workers[x[1]].inbox[x[2]] IN
       \A bad \in PartialFailures(m) :
          LET T == AfterReply(x[1], m, bad) IN
          /\ T.runs[r].outcome # "rejected"
          /\ runs[r].config.onError =>
                Len(T.runs[r].onError) = Len(runs[r].onError) + 1
          /\ IF runs[r].config.autoRender THEN T.runs[r].passStarted
             ELSE T.runs[r].outcome = "resolved" /\ IsReady(T)

\* The install request of the current element of pass owner o, while the
\* worker holds it: <<worker, position in the inbox>>.
ElemInstallHeld(o) ==
    {x \in (DOMAIN workers) \X (1..MaxCalls + MaxApi + 2) :
        /\ Owner(o).pc = "elemInstall"
        /\ workers[x[1]].alive
        /\ x[2] \in DOMAIN workers[x[1]].inbox
        /\ workers[x[1]].inbox[x[2]].type = "installPackages"
        /\ \E c \in Outstanding(o) :
              /\ calls[c].state = workers[x[1]].owner
              /\ calls[c].id = workers[x[1]].inbox[x[2]].id}

\* C23: when the worker handles the install request of an element of a DOM
\* pass, an element one of whose packages fails to install gets the error
\* outcome without a render request, and an element none of whose packages
\* fails goes on to its render request.
C23_DependencyFailureFailsElement ==
    \A o \in PassOwners : \A x \in ElemInstallHeld(o) :
       LET m == workers[x[1]].inbox[x[2]]
           k == Owner(o).pass.k
       IN  \A bad \in SUBSET RequestedNames(m) :
              LET T == AfterReply(x[1], m, bad) IN
              IF bad = {}
              THEN /\ GetOwner(T, o).pc = "elemRender"
                   /\ GetOwner(T, o).pass.k = k
                   /\ T.calls[Len(T.calls)].type = "renderTemplate"
              ELSE /\ Len(GetOwner(T, o).pass.outcomes) >= k
                   /\ GetOwner(T, o).pass.outcomes[k] = "error"
                   /\ \A c \in (Len(calls) + 1)..Len(T.calls) :
                         T.calls[c].type = "renderTemplate" =>
                            GetOwner(T, o).pass.k > k

(***************************************************************************)
(* Order of install and render requests.                                   *)
(***************************************************************************)
\* The install requests that precede a render request of waiter o: those of
\* o itself and, for a caller that awaited an initialization, those of it.
InstallsBefore(S, o) ==
    {b \in DOMAIN S.calls :
        /\ S.calls[b].type = "installPackages"
        /\ \/ S.calls[b].waiter = o
           \/ /\ o.kind = "api" /\ S.api[o.i].run # 0
              /\ S.calls[b].waiter = [kind |-> "run", i |-> S.api[o.i].run]}

\* C24: a render request is dispatched only when every install request its
\* sender awaited before it (the install request of the element, of the
\* render() call, or the batch-install request of the init()) has been
\* settled, by its reply or by its timer.
C24_RenderAfterInstallSettled ==
    [][\A c \in DOMAIN calls' :
          (c \notin DOMAIN calls /\ calls'[c].type = "renderTemplate"
             /\ calls'[c].waiter.kind # "none") =>
             \A b \in InstallsBefore(Sys', calls'[c].waiter) :
                /\ Len(calls'[b].settled) = 1
                /\ calls'[b].settled[1].by \in {"reply", "timeout"}]_vars

\* In one pass the install request of an element was settled by its timer,
\* and the render request of the next element was dispatched after it; the
\* batch-install request of an earlier init() was settled and no render
\* request was ever sent for that init().
C24_Witness ==
    /\ \E b, c \in DOMAIN calls :
          /\ b < c /\ calls[b].waiter = calls[c].waiter
          /\ calls[b].type = "installPackages" /\ calls[b].timer = "fired"
          /\ calls[c].type = "renderTemplate"
    /\ \E r \in DOMAIN runs :
          /\ runs[r].unique # <<>> /\ runs[r].outcome = "rejected"
          /\ \A c \in CallsOfRun(r) :
                calls[c].type = "installPackages" /\ calls[c].settled # <<>>
          /\ CallsOfRun(r) # {}

(***************************************************************************)
(* Elements whose context attribute is not valid JSON.                     *)
(***************************************************************************)
TemplateElements == {i \in DOMAIN dom : dom[i].tpl}

InvalidElements == {i \in TemplateElements : ~dom[i].valid}

\* C25: an element whose context attribute holds invalid JSON is among the
\* elements of a pass and gets an outcome like the others, the scan records
\* an error for it, and every other element is scanned and gets its outcome.
C25_InvalidContextStillRendered ==
    \A o \in PassOwners :
       LET pass == Owner(o).pass IN
       /\ \A i \in TemplateElements : \E k \in DOMAIN pass.elems : pass.elems[k].el = i
       /\ InvalidElements # {} => ~scanDOMForTemplates(dom).success
       /\ PassOver(o) => Len(pass.outcomes) = Cardinality(TemplateElements)


(***************************************************************************)
(* What render() settles with.                                             *)
(***************************************************************************)
\* The render request that render() call a sent.
RenderCallsOf(a) ==
    {c \in DOMAIN calls : /\ calls[c].waiter = [kind |-> "api", i |-> a]
                          /\ calls[c].type = "renderTemplate"}

\* render() call a has settled on the reply to its render request, and the
\* reply carried a result (not an error).
RenderAnswered(a) ==
    /\ api[a].kind = "render" /\ api[a].pc = "done"
    /\ api[a].got.at = "render" /\ api[a].got.by = "reply"
    /\ api[a].got.outcome = "resolve"

\* C26: when the reply to the render request of a render() call reports
\* success, render() resolves with exactly the rendered string of that reply,
\* which is the rendering of the template the call sent; when the reply
\* reports success = false, render() rejects with a TemplateRenderError.
C26_RenderReturnsReply ==
    \A a \in DOMAIN api :
        RenderAnswered(a) =>
            IF api[a].got.result.success
            THEN /\ api[a].outcome = "resolved"
                 /\ api[a].value = api[a].got.result.value
                 /\ \A c \in RenderCallsOf(a) :
                        api[a].value = <<Rendered(calls[c].data.template)>>
            ELSE /\ api[a].outcome = "rejected"
                 /\ api[a].error = "TemplateRenderError"

\* One render() has resolved with the string of its reply and another was
\* rejected after the engine reported a failure.
C26_Witness ==
    /\ \E a \in DOMAIN api :
           /\ RenderAnswered(a) /\ api[a].got.result.success
           /\ api[a].value # <<>>
    /\ \E a \in DOMAIN api :
           /\ RenderAnswered(a) /\ ~api[a].got.result.success
           /\ api[a].got.result.shape = "map"

\* The kind render() rejects with when the engine ran and reported
\* success = false (C26).
ApplicationFailureKind == "TemplateRenderError"

\* render() call a has settled on the timer of its render request.
RenderTimedOut(a) ==
    /\ api[a].kind = "render" /\ api[a].pc = "done"
    /\ api[a].got.at = "render" /\ api[a].got.by = "timeout"

\* C27: a render() whose render request got no reply within the timeout
\* window rejects with an error whose kind is not the kind of a render
\* error.
C27_TimeoutIsDistinctKind ==
    \A a \in DOMAIN api :
        RenderTimedOut(a) =>
            /\ api[a].outcome = "rejected"
            /\ api[a].error # ApplicationFailureKind

\* The render request of render() call a failed in the transport: the worker
\* answered its id with an error, the worker raised an error event and the
\* request was never answered, or the request could not be sent.
TransportFailure(a) ==
    /\ api[a].kind = "render" /\ api[a].pc = "done"
    /\ \/ api[a].got.at = "render" /\ api[a].got.by = "reply"
          /\ api[a].got.outcome = "reject"
       \/ api[a].got.at = "render" /\ api[a].got.by = "timeout"
          /\ \E c \in RenderCallsOf(a) : states[calls[c].state].error
       \/ api[a].got.by = "notSent" /\ api[a].packages = <<>>

\* C28: a transport failure of a render request reaches the caller of
\* render() as a rejection whose kind is not the kind of an application
\* failure.
C28_TransportIsDistinctKind ==
    \A a \in DOMAIN api :
        TransportFailure(a) =>
            /\ api[a].outcome = "rejected"
            /\ api[a].error # ApplicationFailureKind

(***************************************************************************)
(* The worker on its own: any client of the worker script may post any     *)
(* request, at any time after the script has started.                      *)
(***************************************************************************)
RequestTypes ==
    {"installPackage", "installPackages", "renderTemplate", "batchRender",
     "runPython", "reset"}

\* The payloads a client sends with each type ("reset" is not a type the
\* worker knows).
PayloadsOf(type) ==
    IF type = "installPackage" THEN {[packageName |-> n] : n \in {"p", "q"}}
    ELSE IF type = "installPackages"
    THEN {[packageNames |-> l] : l \in {<<"p">>, <<"p", "q">>, <<"q", "q">>}}
    ELSE IF type = "renderTemplate" THEN {[template |-> "t", context |-> "c"]}
    ELSE IF type = "batchRender"
    THEN {[templates |-> << [template |-> "t", context |-> "c"],
                            [template |-> "u", context |-> "c"] >>]}
    ELSE {[code |-> "x"]}

\* The ids of the requests worker w holds or has answered without the
\* answer having been taken yet.
IdsAt(w) ==
    {workers[w].inbox[i].id : i \in DOMAIN workers[w].inbox}
        \cup {workers[w].awaiting[i].m.id : i \in DOMAIN workers[w].awaiting}
        \cup {workers[w].out[i].id :
                 i \in {j \in DOMAIN workers[w].out : workers[w].out[j].kind = "reply"}}

\* A message event reaches self.onmessage of worker w (line 302); until
\* initPromise settles the handler waits at line 306.  The client numbers
\* its requests with the smallest id that is not in use.
WorkerReceive(w, id, type, data) ==
    /\ workers[w].alive
    /\ id \notin IdsAt(w)
    /\ \A k \in 1..(id - 1) : k \in IdsAt(w)
    /\ workers' = [workers EXCEPT
          ![w].inbox = Append(@, [id |-> id, type |-> type, data |-> data])]
    /\ UNCHANGED <<states, calls, pg, runs, api, dom, env>>

\* The client takes the oldest message the worker has posted.
ClientTake(w) ==
    /\ workers[w].alive /\ workers[w].out # <<>>
    /\ workers' = [workers EXCEPT ![w].out = Tail(@)]
    /\ UNCHANGED <<states, calls, pg, runs, api, dom, env>>

InitWorker ==
    /\ states = << [createInitialState(<<>>, TRUE) EXCEPT
                       !.loading = TRUE, !.worker = 1] >>
    /\ workers = << NewWorker(1) >>
    /\ calls = <<>>
    /\ pg = NoInstance
    /\ runs = <<>>
    /\ api = <<>>
    /\ dom = <<>>
    /\ env = [workerThrows |-> FALSE]

NextWorker ==
    \/ \E type \in RequestTypes : \E data \in PayloadsOf(type) :
          \E id \in 1..MaxInbox : WorkerReceive(1, id, type, data)
    \/ \E ok \in BOOLEAN : WorkerBoot(1, ok)
    \/ /\ workers[1].inbox # <<>>
       /\ \E fate \in Fates(Head(workers[1].inbox)) : WorkerHandle(1, fate)
    \/ \E j \in DOMAIN workers[1].awaiting : \E ok \in BOOLEAN : InstallEnd(1, j, ok)
    \/ \E j \in DOMAIN workers[1].awaiting :
          \E how \in PythonOutcomes : PythonEnd(1, j, how)
    \/ ClientTake(1)

SpecWorker == InitWorker /\ [][NextWorker]_vars

\* C29: while a worker lives, the set of installed packages only grows: no
\* request of any type, whether it succeeds or fails, removes a name.
C29_InstalledOnlyGrows ==
    [][\A w \in DOMAIN workers :
          workers[w].alive /\ workers'[w].alive =>
              workers[w].installed \subseteq workers'[w].installed]_vars

\* The worker has installed p, and a later batch naming p and q has been
\* answered with a failure for q: p is still installed.
C29_Witness ==
    /\ workers[1].alive /\ "p" \in workers[1].installed
    /\ "q" \notin workers[1].installed
    /\ \E i \in DOMAIN workers[1].out :
          /\ workers[1].out[i].kind = "reply" /\ ~workers[1].out[i].error
          /\ "errors" \in DOMAIN workers[1].out[i].result
          /\ workers[1].out[i].result.errors = <<"q">>
          /\ workers[1].out[i].result.skipped = <<"p">>

\* The ids of the requests worker w has received and not answered: those
\* whose handler has not passed `await initPromise` and those whose handler
\* is suspended in a collaborator.
HeldIds(wk) ==
    {wk.inbox[i].id : i \in DOMAIN wk.inbox}
        \cup {wk.awaiting[j].m.id : j \in DOMAIN wk.awaiting}

\* The messages worker w posts in this step.
Posted(w) ==
    SubSeq(workers'[w].out, Len(workers[w].out) + 1, Len(workers'[w].out))

IsReply(r) == r.kind = "reply"

\* C30: in every step of the worker, the replies it posts are exactly one
\* for each request whose handler finishes in that step (several handlers do
\* when they resume together at the end of the bootstrap), each carrying the
\* id of its request and either a result or an error, never both; and the
\* worker posts a reply at no other time.
C30_OneReplyPerRequest ==
    [][\A w \in DOMAIN workers :
          workers[w].alive /\ workers'[w].alive =>
             LET gone    == HeldIds(workers[w]) \ HeldIds(workers'[w])
                 replies == SelectSeq(Posted(w), IsReply)
             IN  /\ Len(replies) = Cardinality(gone)
                 /\ {replies[i].id : i \in DOMAIN replies} = gone
                 /\ \A i \in DOMAIN replies :
                       /\ replies[i].error \in BOOLEAN
                       /\ replies[i].error <=> replies[i].result = NoResult
                 /\ gone # {} =>
                       SubSeq(workers'[w].out, 1, Len(workers[w].out))
                          = workers[w].out]_vars

\* A renderTemplate request with id 1 and a request of unknown type with id
\* 2 arrived while the worker was booting; after the ready message the worker
\* has answered the second with an error and then the first with a result.
C30_Witness ==
    /\ workers[1].alive /\ workers[1].phase = "ready"
    /\ HeldIds(workers[1]) = {}
    /\ \E i \in DOMAIN workers[1].out :
          /\ i + 2 = Len(workers[1].out)
          /\ workers[1].out[i].kind = "ready"
          /\ workers[1].out[i + 1].kind = "reply"
          /\ workers[1].out[i + 1].id = 2 /\ workers[1].out[i + 1].error
          /\ workers[1].out[i + 2].kind = "reply"
          /\ workers[1].out[i + 2].id = 1 /\ ~workers[1].out[i + 2].error
          /\ workers[1].out[i + 2].result.shape = "map"
    /\ calls = <<>>

(***************************************************************************)
(* createDjango with requests made at any time, also while the instance    *)
(* has no worker or is not ready.                                          *)
(***************************************************************************)
\* A request of the instance while it cannot send.
InstRequestEarly(type, p) ==
    /\ Len(calls) < MaxCalls
    /\ ~SendAllowed(Sys, 1)
    /\ Commit(sendMessageNotReady(Sys, 1, type, RequestData(type, p), NoWaiter))

NextSend ==
    \/ NextInstance
    \/ \E type \in InstRequestTypes :
          \E p \in {"p"} : InstRequestEarly(type, p)

SpecSend == InitInstance /\ [][NextSend]_vars

\* The calls that were rejected because the controller could not send.
RejectedNotReady(cs) ==
    {c \in DOMAIN cs : /\ cs[c].settled # <<>>
                       /\ cs[c].settled[1].by = "notReady"}

\* C31: a sendMessage made while the controller has no worker or is not
\* ready is rejected with the not-ready error at once; the step leaves
\* messageId and pendingMessages as they were, posts nothing to any worker,
\* and the call has no timer: nothing settles it again later.
C31_NotReadySendHasNoEffect ==
    [][\A c \in RejectedNotReady(calls') :
          /\ calls'[c].timer = "none"
          /\ calls'[c].settled = << [by |-> "notReady", rid |-> 0,
                                     outcome |-> "reject"] >>
          /\ c \notin DOMAIN calls =>
                /\ ~SendAllowed(Sys, calls'[c].state)
                /\ states' = states
                /\ workers' = workers]_vars

\* A request was refused while the worker was loading, and a later request
\* of the same instance was sent once it was ready.
C31_Witness ==
    /\ Len(calls) = 2
    /\ 1 \in RejectedNotReady(calls)
    /\ calls[2].id = 1 /\ calls[2].timer = "armed"
    /\ states[1].messageId = 1

\* The requests that were given an id, in the order in which they were made.
Sent(cs) == {c \in DOMAIN cs : cs[c].id # 0}

\* C32: on one controller state the ids of the requests are strictly
\* increasing in the order of the requests, whatever destroy() and init()
\* happened in between; every entry of pendingMessages belongs to the
\* request that carries its id; and a timer that fires takes away no entry
\* but the one of its own request.
C32_IdsNeverReused ==
    /\ [](\A c, d \in Sent(calls) :
            (c < d /\ calls[c].state = calls[d].state)
                => calls[c].id < calls[d].id)
    /\ [](\A s \in DOMAIN states : \A id \in PendingIds(s) :
            LET c == states[s].pendingMessages[id] IN
            c \in Sent(calls) /\ calls[c].id = id /\ calls[c].state = s)
    /\ [][\A c \in DOMAIN calls :
            (calls[c].timer = "armed" /\ calls'[c].timer = "fired") =>
               \A d \in Sent(calls) \ {c} :
                  /\ calls'[d].settled = calls[d].settled
                  /\ calls[d].id \in PendingIds(calls[d].state)
                        => calls[d].id \in DOMAIN states'[calls[d].state].pendingMessages]_vars

\* A request was made, the instance was destroyed and initialized again,
\* and a second request was made on the new worker: it has id 2 while the
\* timer of the first is still armed.
C32_Witness ==
    /\ Len(calls) = 2 /\ Len(workers) = 2
    /\ calls[1].id = 1 /\ calls[1].cleared /\ calls[1].timer = "armed"
    /\ calls[2].id = 2 /\ calls[2].settled = <<>>
    /\ 2 \in PendingIds(1)

(***************************************************************************)
(* The singleton with a worker that may also post messages of other        *)
(* shapes than the ones pyodide.worker.ts posts.                           *)
(***************************************************************************)
\* A progress message that also carries an id, one that also carries the
\* ready flag, and a message with none of progress, ready and id.
StrayMessages ==
    {[kind |-> "progress", step |-> "stray", id |-> i] : i \in 1..MaxCalls}
        \cup {[kind |-> "progress", step |-> "stray", ready |-> TRUE],
              [kind |-> "other", step |-> "stray"]}

\* Worker w posts such a message while nothing else it posted is on its
\* way.
WorkerStray(w, m) ==
    /\ workers[w].alive
    /\ ~MicrotasksPending
    /\ workers[w].out = <<>>
    /\ workers' = [workers EXCEPT ![w].out = Append(@, m)]
    /\ UNCHANGED <<states, calls, pg, runs, api, dom, env>>

NextInbound ==
    \/ NextLife
    \/ \E w \in DOMAIN workers : \E m \in StrayMessages : WorkerStray(w, m)

SpecInbound == InitPlayground /\ [][NextInbound]_vars

\* Message m settles nothing on a controller with state st: it carries
\* progress, or it carries neither ready nor the id of a pending request.
Uncorrelated(m, st) ==
    \/ m.kind = "progress"
    \/ /\ m.kind # "ready"
       /\ "id" \in DOMAIN m => m.id \notin DOMAIN st.pendingMessages

\* Worker w's oldest posted message is taken by the host in this step.
Received(w) ==
    /\ workers[w].alive /\ workers'[w].alive
    /\ workers[w].out # <<>>
    /\ workers'[w].out = Tail(workers[w].out)
    /\ workers'[w].inbox = workers[w].inbox

\* C33: when the host receives a message that carries progress, or that
\* carries neither progress nor ready nor the id of a pending request, no
\* promise is settled (of a request, of waitForReady, of an API call), and
\* pendingMessages and the ready flag, as all of the controller, stay as
\* they were.
C33_UncorrelatedMessageHasNoEffect ==
    [][\A w \in DOMAIN workers :
          (Received(w) /\ Uncorrelated(Head(workers[w].out), states[workers[w].owner]))
             => /\ states' = states
                /\ calls' = calls
                /\ runs' = runs
                /\ api' = api
                /\ pg' = pg /\ dom' = dom]_vars

\* The worker has posted a progress message that carries the id of a request
\* that is pending on its controller.
C33_Witness ==
    \E w \in DOMAIN workers :
        /\ workers[w].alive /\ workers[w].out # <<>>
        /\ Head(workers[w].out).kind = "progress"
        /\ "id" \in DOMAIN Head(workers[w].out)
        /\ Head(workers[w].out).id \in DOMAIN states[workers[w].owner].pendingMessages

\* How many messages of a kind a queue holds.
RECURSIVE CountKind(_, _)
CountKind(q, kind) ==
    IF q = <<>> THEN 0
    ELSE (IF Head(q).kind = kind THEN 1 ELSE 0) + CountKind(Tail(q), kind)

\* The handler of a request of worker w gets past `await initPromise` in
\* this step.
Handled(w) == Len(workers'[w].inbox) < Len(workers[w].inbox)

\* No reply comes before a ready message in queue q.
ReadyFirst(q) ==
    \A i, j \in DOMAIN q :
        (q[i].kind = "reply" /\ q[j].kind = "ready") => j < i

\* C34: the bootstrap of a worker starts with the worker and ends once, as
\* a success or as a failure, and the worker never bootstraps again; the
\* ready message is posted in the step in which the bootstrap succeeds and
\* at no other time, and before every reply; no handler passes its wait for
\* the bootstrap, no request is answered, and none changes the installed set
\* or calls the installer, before the bootstrap has ended (the handlers that
\* wait resume in the step that ends it); and after a failed bootstrap every
\* request is answered with an error and runs nothing.
C34_BootstrapOnceBeforeRequests ==
    /\ [](\A w \in DOMAIN workers :
            /\ (workers[w].alive /\ workers[w].phase = "loading")
                  => /\ workers[w].installed \subseteq {"django"}
                     /\ workers[w].awaiting = <<>>
                     /\ CountKind(workers[w].out, "reply") = 0
                     /\ \A i \in DOMAIN workers[w].invoked :
                           workers[w].invoked[i].name = "django"
            /\ CountKind(workers[w].out, "ready") > 0
                  => workers[w].phase = "ready"
            /\ ReadyFirst(workers[w].out))
    /\ [][\A w \in DOMAIN workers :
            (workers[w].alive /\ workers'[w].alive) =>
               /\ workers[w].phase # "loading"
                     => workers'[w].phase = workers[w].phase
               /\ CountKind(workers'[w].out, "ready") > CountKind(workers[w].out, "ready")
                     => /\ workers[w].phase = "loading"
                        /\ workers'[w].phase = "ready"
                        /\ CountKind(workers'[w].out, "ready") = 1
               /\ Handled(w) => workers'[w].phase \in {"ready", "failed"}
               /\ (Handled(w) /\ workers'[w].phase = "failed")
                     => /\ workers'[w].installed = workers[w].installed
                        /\ workers'[w].awaiting = workers[w].awaiting
                        /\ Len(workers'[w].invoked) = Len(workers[w].invoked)
                        /\ Len(Posted(w))
                              = Len(workers[w].inbox) - Len(workers'[w].inbox)
                        /\ \A i \in DOMAIN Posted(w) :
                              Posted(w)[i].kind = "reply" /\ Posted(w)[i].error]_vars

\* Two requests for packages arrived while the worker was booting; the
\* bootstrap has failed after its first progress message, and both requests
\* have been answered with an error, in their order, without installing
\* anything.
C34_Witness ==
    /\ workers[1].alive /\ workers[1].phase = "failed"
    /\ workers[1].inbox = <<>> /\ workers[1].awaiting = <<>>
    /\ workers[1].installed = {}
    /\ Len(workers[1].out) = 3
    /\ workers[1].out[1].kind = "progress"
    /\ workers[1].out[2].kind = "reply" /\ workers[1].out[2].error
    /\ workers[1].out[2].id = 1
    /\ workers[1].out[3].kind = "reply" /\ workers[1].out[3].error
    /\ workers[1].out[3].id = 2
    /\ calls = <<>> /\ pg = NoInstance

(***************************************************************************)
(* The install handlers of the worker alone.                               *)
(***************************************************************************)
NextInstall ==
    \/ \E type \in {"installPackage", "installPackages"} :
          \E data \in PayloadsOf(type) :
             \E id \in 1..MaxInbox : WorkerReceive(1, id, type, data)
    \/ WorkerBoot(1, TRUE)
    \/ /\ workers[1].inbox # <<>>
       /\ \E fate \in Fates(Head(workers[1].inbox)) : WorkerHandle(1, fate)
    \/ \E j \in DOMAIN workers[1].awaiting : \E ok \in BOOLEAN : InstallEnd(1, j, ok)
    \/ ClientTake(1)

SpecInstall == InitWorker /\ [][NextInstall]_vars

\* How often micropip.install was called with name n by worker w, the calls
\* that failed (and may be tried again) left out.
Invocations(w, n) ==
    Cardinality({i \in DOMAIN workers[w].invoked :
                    /\ workers[w].invoked[i].name = n
                    /\ workers[w].invoked[i].ended # "failed"})

\* C35: whatever the interleaving of the install handlers of a worker, for
\* every name that is installed the installer has been called at most once,
\* calls that failed not counted.
C35_InstallerOncePerPackage ==
    \A w \in DOMAIN workers : \A n \in workers[w].installed \ {"django"} :
        Invocations(w, n) <= 1

\* C36: every promise returned by init() is eventually settled, also when
\* cleanup() releases the instance while the initialization waits for the
\* ready message or for the reply to its install request.
C36_InitAlwaysSettles ==
    \A a \in 1..MaxApi :
        (a \in InitCalls) ~> (a \in InitCalls /\ api[a].outcome # "pending")

(***************************************************************************)
(* render() and renderDOM() on a singleton on which init() is never        *)
(* called.                                                                 *)
(***************************************************************************)
NextEnsure ==
    \/ ApiRender(<<>>)
    \/ ApiRenderDOM
    \/ Microtasks
    \/ \E w \in DOMAIN workers : \E ok \in BOOLEAN : WorkerBoot(w, ok)
    \/ \E w \in DOMAIN workers :
          /\ workers[w].inbox # <<>>
          /\ \E fate \in Fates(Head(workers[w].inbox)) : WorkerHandle(w, fate)
    \/ \E w \in DOMAIN workers : HostReceive(w)
    \/ \E c \in DOMAIN calls : CallTimeout(c)
    \/ \E r \in DOMAIN runs : WaitTimeout(r)

SpecEnsure == InitPlayground /\ [][NextEnsure]_vars

\* The render() and renderDOM() calls.
RenderCalls == {a \in DOMAIN api : api[a].kind \in {"render", "renderDOM"}}

\* C37: the first render() or renderDOM() on a singleton on which no
\* initialization was started starts one, with no packages and auto-render
\* enabled, which creates one worker (none when `new Worker` throws); the
\* calls made while it runs start none and await it; and a call sends a
\* request of its own only in a state where the initialization it awaited
\* has resolved.  (No cleanup() meanwhile.)
C37_RenderStartsOneInit ==
    /\ [](\A a \in RenderCalls :
            /\ (a = 1) =>
                  /\ runs # <<>> /\ runs[1].by = 1 /\ api[1].run = 1
                  /\ runs[1].config.packages = <<>>
                  /\ runs[1].config.autoRender
                  /\ Cardinality(WorkersOf(runs[1].state))
                        = IF env.workerThrows THEN 0 ELSE 1
            /\ (api[a].inflight # 0) =>
                  /\ api[a].run = api[a].inflight
                  /\ \A q \in DOMAIN runs : runs[q].by # a)
    /\ [][\A c \in DOMAIN calls' :
            (c \notin DOMAIN calls /\ calls'[c].waiter.kind = "api") =>
               LET a == calls'[c].waiter.i IN
               /\ api'[a].run # 0 => runs'[api'[a].run].outcome = "resolved"
               /\ pg'.initialized
               /\ states'[calls'[c].state].ready]_vars

\* A renderDOM() started the initialization, a render() joined it, and both
\* have sent requests of their own after it; one worker exists.
C37_Witness ==
    /\ Len(api) = 2 /\ api[1].kind = "renderDOM" /\ api[2].kind = "render"
    /\ api[1].run = 1 /\ api[2].run = 1 /\ api[2].inflight = 1
    /\ Len(workers) = 1 /\ Len(runs) = 1
    /\ \E c, d \in DOMAIN calls :
          /\ calls[c].waiter = [kind |-> "api", i |-> 1]
          /\ calls[d].waiter = [kind |-> "api", i |-> 2]

(***************************************************************************)
(* createDjango with the promises of init().                               *)
(***************************************************************************)
\* init of the instance, line 345: the promise of initializeDjango(state).
\* The async function returns at its guard (lines 158-160) or after the
\* worker was created (line 168), and throws when `new Worker` throws.
instanceInit(S, throws) ==
    LET guarded == InitGuard(S.states[1])
        S1 == initializeDjango(S, 1, throws)
        failed == ~guarded /\ throws
    IN  [S1 EXCEPT !.api = Append(@,
            [NewApi(S, "instanceInit", <<>>) EXCEPT
                !.pc = "done",
                !.outcome = IF failed THEN "rejected" ELSE "resolved",
                !.error = IF failed THEN "Error" ELSE "none",
                !.wasReady = S.states[1].ready])]

InstInitCall ==
    /\ Len(api) < MaxApi
    /\ ~InitGuard(states[1]) => Len(workers) < MaxWorkers
    /\ Commit(instanceInit(Sys, env.workerThrows))

NextCreate ==
    \/ InstInitCall
    \/ \E type \in InstRequestTypes :
          \E p \in {"p"} : InstRequest(type, p)
    \/ InstDestroy
    \/ \E w \in DOMAIN workers : \E ok \in BOOLEAN : WorkerBoot(w, ok)
    \/ \E w \in DOMAIN workers :
          /\ workers[w].inbox # <<>>
          /\ \E fate \in Fates(Head(workers[w].inbox)) : WorkerHandle(w, fate)
    \/ \E w \in DOMAIN workers : \E j \in DOMAIN workers[w].awaiting :
          \E ok \in BOOLEAN : InstallEnd(w, j, ok)
    \/ \E w \in DOMAIN workers : \E j \in DOMAIN workers[w].awaiting :
          \E how \in PythonOutcomes : PythonEnd(w, j, how)
    \/ \E w \in DOMAIN workers : HostReceive(w)
    \/ \E c \in DOMAIN calls : CallTimeout(c)

SpecCreate == InitInstance /\ [][NextCreate]_vars

\* C38: in the state in which a promise returned by init() of a createDjango
\* instance resolves, the instance is ready: isReady() is true and
\* sendMessage accepts a renderTemplate.  So an init() made while an earlier
\* one is loading does not resolve before the ready message.
C38_InitResolvesWhenReady ==
    [][\A a \in DOMAIN api' :
          ( /\ api'[a].kind = "instanceInit"
            /\ api'[a].outcome = "resolved"
            /\ a \notin DOMAIN api )
             => (states'[1].ready /\ SendAllowed(Sys', 1))]_vars

\* C39: for every initialization of the singleton that was given the
\* callbacks, if it failed onError has been invoked exactly once, and if it
\* succeeded onReady has been invoked exactly once, with isReady() true.
C39_CallbacksExactlyOnce ==
    \A r \in DOMAIN runs :
        /\ (runs[r].outcome = "rejected" /\ runs[r].config.onError)
              => Len(runs[r].onError) = 1
        /\ (runs[r].outcome = "resolved" /\ runs[r].config.onReady)
              => runs[r].onReady = << TRUE >>

\* The render requests that DOM passes sent for elements.
ElementRenders ==
    {c \in DOMAIN calls :
        /\ calls[c].type = "renderTemplate"
        /\ \/ calls[c].waiter.kind = "run"
           \/ /\ calls[c].waiter.kind = "api"
              /\ api[calls[c].waiter.i].kind = "renderDOM"}

\* C40: every render request sent for a DOM element carries the template
\* source the element declared in the document (every element of the
\* documents declares Template), in the first pass and in every later one.
C40_RenderSendsDeclaredTemplate ==
    \A c \in ElementRenders : calls[c].data.template = Template
====
